---- MODULE Spec2Model ----
(***************************************************************************)
(* Model of the stcwallet hot-wallet core: the custody worker              *)
(* (walletLocker), the build worker (txCreator / txToPairs / createTx),    *)
(* the lock-state notification path and the SendPairs callers.             *)
(*                                                                         *)
(* Channels are Go channels.  An unbuffered send/receive pair is one       *)
(* step: the sender sits in a "...Send" position until the receiver is at  *)
(* the matching receive, and the step moves both.                          *)
(***************************************************************************)
EXTENDS Integers, Naturals, Sequences, FiniteSets, TLC

\* ------------------------------------------------------------------ bounds
\* Goroutines calling the wallet API concurrently.
NumClients == 2
\* Passphrases a caller may present; the manager's private passphrase is one.
NumPass == 2
\* Unlock timeouts a caller may present: 0 (no expiry) .. MaxTimeout.
MaxTimeout == 1
\* SendPairs calls started in one behaviour.
MaxTx == 2
\* Length of the window of lock-state values the subscriber remembers.
MaxObserved == 2

\* Credits in the transaction store when the wallet starts.
NumCredits == 2
\* Height of the chain tip the chain server reports; the initial credits
\* are mined at height 1.
TipHeight == 1

\* Credits in the list createTx is called with, and in a store txToPairs
\* selects from.
MaxEligible == 3
\* Pairs in a pay-list.
MaxPairs == 2
\* Inputs and outputs estimateTxSize is asked about.
MaxCount == 6

Clients == 1 .. NumClients
Passphrases == 1 .. NumPass
Timeouts == 0 .. MaxTimeout

\* ------------------------------------------------------- program constants
\* Amounts (coinutil.Amount, int64 satoshi) are counted in units of 1000
\* satoshi, so that the amounts at which the priority rule applies fit TLC's
\* integers: every amount the model feeds the program is a multiple of 1000
\* satoshi, and sums, differences and feeForSize keep them so.
txOverheadEstimate == 10
txInEstimate == 146
txOutEstimate == 34
\* defaultFeeIncrement = 1e3 satoshi
defaultFeeIncrement == 1
\* coinutil.SatoshiPerBitcent = 1e6 satoshi
SatoshiPerBitcent == 1000
\* coinutil.MaxSatoshi = 21e6 * 1e8 satoshi = 2100000 * 1e6 units
MaxSatoshiMega == 2100000
\* coinutil.SatoshiPerBitcoin * blocksPerDayEstimate / txSizeEstimate
\* = 1e8 * 144 / 250 = 57.6e6 satoshi
threshold == 57600
\* blockchain.CoinbaseMaturity
CoinbaseMaturity == 100

\* ------------------------------------------------------ createtx.go: sizes
\* An estimate with the input size of a signature script of 108 bytes.
estimateTxSizeLongScript(numInputs, numOutputs) ==
    txOverheadEstimate + 148 * numInputs + txOutEstimate * numOutputs

estimateTxSize(numInputs, numOutputs) ==
    txOverheadEstimate + txInEstimate * numInputs + txOutEstimate * numOutputs

\* A fee that counts only the full kilobytes.
feeForSizeFloor(incr, sz) == (sz \div 1000) * incr

feeForSize(incr, sz) == (1 + sz \div 1000) * incr

\* wire.MsgTx.SerializeSize for nIn inputs whose signature scripts are sigLen
\* bytes each and nOut P2PKH outputs: version 4, locktime 4, two one-byte
\* varints; per input 32 + 4 + 1 + sigLen + 4; per output 8 + 1 + 25.
SerializeSize(nIn, nOut, sigLen) == 10 + nIn * (41 + sigLen) + nOut * 34

chainDepth(target, current) ==
    IF target = -1 THEN 0 ELSE current - target + 1

\* A count of confirmations that leaves out the block of the transaction.
confirmsBlocksAfter(txHeight, curHeight) ==
    IF txHeight = -1 \/ txHeight > curHeight THEN 0
    ELSE curHeight - txHeight

confirms(txHeight, curHeight) ==
    IF txHeight = -1 \/ txHeight > curHeight THEN 0
    ELSE curHeight - txHeight + 1

confirmed(minconf, txHeight, curHeight) ==
    confirms(txHeight, curHeight) >= minconf

RECURSIVE weightedSum(_, _)
weightedSum(curHeight, txouts) ==
    IF txouts = << >> THEN 0
    ELSE Head(txouts).amt * chainDepth(Head(txouts).height, curHeight)
         + weightedSum(curHeight, Tail(txouts))

\* priority := float64(weightedSum) / float64(txSize); priority > threshold.
\* The quotient is compared without forming threshold * txSize.
allowNoFeeTx(curHeight, txouts, txSize) ==
    LET ws == weightedSum(curHeight, txouts)
    IN  \/ ws \div txSize > threshold
        \/ ws \div txSize = threshold /\ ws % txSize > 0

\* fee > coinutil.MaxSatoshi, compared without forming MaxSatoshi.
ExceedsMaxSatoshi(fee) ==
    \/ fee \div 1000000 > MaxSatoshiMega
    \/ fee \div 1000000 = MaxSatoshiMega /\ fee % 1000000 > 0

minimumFee(incr, txLen, outputs, prevOutputs, height, disallowFree) ==
    LET allowFree == IF ~disallowFree
                     THEN allowNoFeeTx(height, prevOutputs, txLen)
                     ELSE FALSE
        fee0 == feeForSize(incr, txLen)
        fee == IF allowFree /\ txLen < 1000 THEN 0 ELSE fee0
    IN  IF fee < incr /\ \E i \in 1 .. Len(outputs) :
                            outputs[i].value < SatoshiPerBitcent
        THEN incr
        ELSE IF fee < 0 \/ ExceedsMaxSatoshi(fee)
             THEN MaxSatoshiMega * 1000000
             ELSE fee

\* ------------------------------------------------- createtx.go: createTx
\* A credit (wtxmgr.Credit) is a record
\*   [op, amt, height, coinbase, class, acct]
\* op the outpoint, height -1 when unmined, class the script class of its
\* PkScript and acct the account of the script's address.  An output of the
\* transaction under construction is [addr, value].

\* A sort that puts the smallest amount first.
RECURSIVE SortByAmountAsc(_)
SortByAmountAsc(S) ==
    IF S = {} THEN << >>
    ELSE LET m == CHOOSE c \in S :
                    \A d \in S : \/ c.amt < d.amt
                                 \/ c.amt = d.amt /\ c.op <= d.op
         IN  << m >> \o SortByAmountAsc(S \ {m})

\* sort.Sort(sort.Reverse(ByAmount(eligible))): largest amount first.
RECURSIVE SortByAmountDesc(_)
SortByAmountDesc(S) ==
    IF S = {} THEN << >>
    ELSE LET m == CHOOSE c \in S :
                    \A d \in S : \/ c.amt > d.amt
                                 \/ c.amt = d.amt /\ c.op <= d.op
         IN  << m >> \o SortByAmountDesc(S \ {m})

\* coinutil.DecodeAddress fails on a string that is no address.
DecodeAddress(addrStr) == addrStr # "not an address"

\* An addOutputs that sets the total to each amount instead of adding it.
addOutputsLastAmount(outs, minAmount, pairs) ==
    [err |-> "none",
     minAmount |-> IF pairs = << >> THEN minAmount
                   ELSE pairs[Len(pairs)].amt,
     outs |-> outs \o [i \in 1 .. Len(pairs) |->
                         [addr |-> pairs[i].addr, value |-> pairs[i].amt]]]

\* An addOutputs that rejects negative amounts only.
RECURSIVE addOutputsZeroOk(_, _, _)
addOutputsZeroOk(outs, minAmount, pairs) ==
    IF pairs = << >>
    THEN [err |-> "none", minAmount |-> minAmount, outs |-> outs]
    ELSE IF Head(pairs).amt < 0
    THEN [err |-> "ErrNonPositiveAmount", minAmount |-> minAmount,
          outs |-> outs]
    ELSE addOutputsZeroOk(Append(outs, [addr |-> Head(pairs).addr,
                                        value |-> Head(pairs).amt]),
                          minAmount + Head(pairs).amt, Tail(pairs))

\* addOutputs: one output per pair, in the order the pairs are ranged over;
\* the first non-positive amount ends it with ErrNonPositiveAmount, the
\* first address that does not decode with that error.
RECURSIVE addOutputs(_, _, _)
addOutputs(outs, minAmount, pairs) ==
    IF pairs = << >>
    THEN [err |-> "none", minAmount |-> minAmount, outs |-> outs]
    ELSE IF Head(pairs).amt <= 0
    THEN [err |-> "ErrNonPositiveAmount", minAmount |-> minAmount,
          outs |-> outs]
    ELSE IF ~DecodeAddress(Head(pairs).addr)
    THEN [err |-> "cannot decode address",
          minAmount |-> minAmount + Head(pairs).amt, outs |-> outs]
    ELSE addOutputs(Append(outs, [addr |-> Head(pairs).addr,
                                  value |-> Head(pairs).amt]),
                    minAmount + Head(pairs).amt, Tail(pairs))

\* The first selection loop: pop credits until the outputs are covered.
RECURSIVE selectInputs(_, _, _, _)
selectInputs(eligible, inputs, totalAdded, minAmount) ==
    IF totalAdded >= minAmount
    THEN [ok |-> TRUE, eligible |-> eligible, inputs |-> inputs,
          totalAdded |-> totalAdded]
    ELSE IF eligible = << >>
    THEN [ok |-> FALSE, eligible |-> eligible, inputs |-> inputs,
          totalAdded |-> totalAdded]
    ELSE selectInputs(Tail(eligible), Append(inputs, Head(eligible)),
                      totalAdded + Head(eligible).amt, minAmount)

\* A top-up that goes on with what it has.
topUpNoCheck(st, outs, env) == [st EXCEPT !.ok = TRUE]

\* A top-up that keeps the fee estimate it has when it pops a credit.
RECURSIVE topUpKeepsFee(_, _, _)
topUpKeepsFee(st, outs, env) ==
    IF st.totalAdded >= env.minAmount + st.feeEst
    THEN [st EXCEPT !.ok = TRUE]
    ELSE IF st.eligible = << >>
    THEN [st EXCEPT !.ok = FALSE]
    ELSE topUpKeepsFee([st EXCEPT
                           !.eligible = Tail(@),
                           !.inputs = Append(@, Head(st.eligible)),
                           !.totalAdded = @ + Head(st.eligible).amt,
                           !.szEst = @ + txInEstimate,
                           !.need = env.minAmount + st.feeEst],
                       outs, env)

\* The top-up loop: pop credits until outputs plus fee are covered,
\* re-estimating the fee after every pop.  st is
\*   [ok, eligible, inputs, totalAdded, szEst, feeEst, need],
\* need the amount the input total was compared with when the last credit
\* was popped (0 before any pop).
RECURSIVE topUp(_, _, _)
topUp(st, outs, env) ==
    IF st.totalAdded >= env.minAmount + st.feeEst
    THEN [st EXCEPT !.ok = TRUE]
    ELSE IF st.eligible = << >>
    THEN [st EXCEPT !.ok = FALSE]
    ELSE LET input == Head(st.eligible)
             inputs == Append(st.inputs, input)
             szEst == st.szEst + txInEstimate
         IN  topUp([ok |-> TRUE,
                    eligible |-> Tail(st.eligible),
                    inputs |-> inputs,
                    totalAdded |-> st.totalAdded + input.amt,
                    szEst |-> szEst,
                    feeEst |-> minimumFee(env.incr, szEst, outs, inputs,
                                          env.height, env.disallowFree),
                    need |-> env.minAmount + st.feeEst],
                   outs, env)

\* An addChange that appends the change output and leaves it last.
addChangeLast(outs, change, r) ==
    Append(outs, [addr |-> "change", value |-> change])

\* addChange: append the change output, swap it with the output at the
\* random index r and return r.
addChange(outs, change, r) ==
    LET appended == Append(outs, [addr |-> "change", value |-> change])
        c == Len(appended)
    IN  [appended EXCEPT ![r + 1] = appended[c], ![c] = appended[r + 1]]

\* A removal that leaves the outputs as they are.
removeOutputKeepsAll(outs, changeIdx) == outs

\* msgtx.TxOut[:changeIdx] followed by msgtx.TxOut[changeIdx+1:]
removeOutput(outs, changeIdx) ==
    SubSeq(outs, 1, changeIdx) \o SubSeq(outs, changeIdx + 2, Len(outs))

\* signMsgTx: the indices of the inputs that get a signature script, or the
\* first error.  ExtractPkScriptAddrs gives one pubkey-hash address for
\* "P2PKH", one address of another kind for "PubKey" and "P2SH", several
\* for "MultiSig" and none for "NonStandard" and "AnyoneCanSpend" (a
\* non-standard script that needs no signature).  A script with other than
\* one address is skipped (continue); a single address that is no pubkey
\* hash is unsupported; the private key of a locked manager is not
\* available.
RECURSIVE signMsgTx(_, _, _, _)
signMsgTx(prevOutputs, i, signed, mgrLocked) ==
    IF i > Len(prevOutputs) THEN [err |-> "none", signed |-> signed]
    ELSE LET class == prevOutputs[i].class
         IN  IF class \in {"MultiSig", "NonStandard", "AnyoneCanSpend"}
             THEN signMsgTx(prevOutputs, i + 1, signed, mgrLocked)
             ELSE IF class # "P2PKH"
             THEN [err |-> "ErrUnsupportedTransactionType",
                   signed |-> signed]
             ELSE IF mgrLocked
             THEN [err |-> "cannot get private key", signed |-> signed]
             ELSE signMsgTx(prevOutputs, i + 1, signed \cup {i}, mgrLocked)

\* validateMsgTx: every input must execute against its previous script.  A
\* signed input does; an input without signature script does only when its
\* previous script needs none.
validateMsgTx(prevOutputs, signed) ==
    IF \A i \in 1 .. Len(prevOutputs) :
          i \in signed \/ prevOutputs[i].class = "AnyoneCanSpend"
    THEN "none" ELSE "cannot validate transaction"

\* What a return of createTx leaves behind: the error (or "none"), the
\* inputs added so far, the outputs, ChangeIndex, the fee estimate and the
\* input total at that point (the fee and in of an InsufficientFundsError),
\* the number of loop iterations, the inputs that carry a signature script,
\* the number of signMsgTx calls made, whether changeAddress was called,
\* minAmount (the out of an InsufficientFundsError), for every iteration
\* of the loop the fee estimate and the number of inputs it started with,
\* and the amount the input total was compared with at the last pop.
Failed(e, st) ==
    [err |-> e, inputs |-> st.inputs, outs |-> << >>, changeIdx |-> -1,
     hasChange |-> FALSE, fee |-> st.feeEst, totalAdded |-> st.totalAdded,
     iters |-> 0, signed |-> {}, signPasses |-> 0, asked |-> FALSE,
     minAmount |-> 0, trace |-> << >>, lastNeed |-> st.need]

\* The convergence loop of createTx and what follows it.  env is
\*   [minAmount, incr, height, disallowFree, mgrLocked, sigLen, rnd,
\*    changeAddrOk]
\* sigLen the length of a signature script, rnd[k] the random number drawn
\* by addChange in iteration k, changeAddrOk whether changeAddress succeeds.
RECURSIVE converge(_, _, _, _, _, _)
converge(st, outs, changeIdx, iter, trace, env) ==
    LET change == st.totalAdded - env.minAmount - st.feeEst
        trace1 == Append(trace, [fee |-> st.feeEst, nin |-> Len(st.inputs)])
        r == env.rnd[((iter - 1) % Len(env.rnd)) + 1] % (Len(outs) + 1)
        outs1 == IF change > 0 THEN addChange(outs, change, r) ELSE outs
        changeIdx1 == IF change > 0 THEN r ELSE changeIdx
        sig == signMsgTx(st.inputs, 1, {}, env.mgrLocked)
        \* an input signMsgTx skipped has an empty signature script
        size == SerializeSize(Len(st.inputs), Len(outs1), 0)
                + Cardinality(sig.signed) * env.sigLen
        \* changeAddr is non-nil exactly when addChange has run
        asked == changeIdx1 >= 0
    IN  IF change > 0 /\ ~env.changeAddrOk
        THEN [Failed("changeAddress", st) EXCEPT
                 !.asked = TRUE, !.signPasses = iter - 1,
                 !.iters = iter, !.trace = trace1]
        ELSE IF sig.err # "none"
        THEN [Failed(sig.err, st) EXCEPT
                 !.asked = asked, !.signPasses = iter, !.signed = sig.signed,
                 !.iters = iter, !.trace = trace1]
        ELSE IF feeForSize(env.incr, size) <= st.feeEst
        THEN LET v == validateMsgTx(st.inputs, sig.signed)
             IN  IF v # "none"
                 THEN [Failed(v, st) EXCEPT
                          !.asked = asked, !.signPasses = iter,
                          !.signed = sig.signed,
                          !.iters = iter, !.trace = trace1]
                 ELSE [err |-> "none", inputs |-> st.inputs, outs |-> outs1,
                       changeIdx |-> changeIdx1, hasChange |-> change > 0,
                       fee |-> st.feeEst, totalAdded |-> st.totalAdded,
                       iters |-> iter, signed |-> sig.signed,
                       signPasses |-> iter, asked |-> asked,
                       minAmount |-> env.minAmount, trace |-> trace1,
                       lastNeed |-> st.need]
        ELSE LET outs2 == IF change > 0
                          THEN removeOutput(outs1, changeIdx1) ELSE outs1
                 st2 == topUp([st EXCEPT !.feeEst = @ + env.incr], outs2, env)
             IN  IF ~st2.ok
                 THEN [Failed("InsufficientFunds", st2) EXCEPT
                          !.asked = asked, !.signPasses = iter,
                          !.signed = sig.signed,
                          !.iters = iter, !.trace = trace1]
                 ELSE converge(st2, outs2, changeIdx1, iter + 1, trace1, env)

\* createTx(eligible, outputs, bs, feeIncrement, mgr, account,
\*          changeAddress, chainParams, disallowFree)
createTx(eligible, pairs, env0) ==
    LET added == addOutputs(<< >>, 0, pairs)
        env == [env0 EXCEPT !.minAmount = added.minAmount]
        sel == selectInputs(SortByAmountDesc(eligible), << >>, 0,
                            added.minAmount)
        szEst == estimateTxSize(Len(sel.inputs), Len(added.outs))
        st0 == [ok |-> TRUE, eligible |-> sel.eligible,
                inputs |-> sel.inputs, totalAdded |-> sel.totalAdded,
                szEst |-> szEst,
                feeEst |-> minimumFee(env.incr, szEst, added.outs, sel.inputs,
                                      env.height, env.disallowFree),
                need |-> IF sel.inputs = << >> THEN 0 ELSE added.minAmount]
        st1 == topUp(st0, added.outs, env)
        res == IF added.err # "none"
               THEN Failed(added.err, [inputs |-> << >>, feeEst |-> 0,
                                       totalAdded |-> 0, need |-> 0])
               ELSE IF ~sel.ok
               THEN Failed("InsufficientFunds",
                           [inputs |-> sel.inputs, feeEst |-> 0,
                            totalAdded |-> sel.totalAdded,
                            need |-> IF sel.inputs = << >> THEN 0
                                     ELSE added.minAmount])
               ELSE IF ~st1.ok THEN Failed("InsufficientFunds", st1)
               ELSE converge(st1, added.outs, -1, 1, << >>, env)
    IN  [res EXCEPT !.minAmount = added.minAmount]

\* A findEligibleOutputs that does not look at the locked outpoints.
findEligibleNoLock(unspentOutputs, lockedOps, account, minconf, bsHeight) ==
    { output \in unspentOutputs :
        /\ confirmed(minconf, output.height, bsHeight)
        /\ output.coinbase =>
              confirmed(CoinbaseMaturity, output.height, bsHeight)
        /\ output.class = "P2PKH"
        /\ output.acct = account }

\* findEligibleOutputs: the unspent credits that pass every filter.
findEligibleOutputs(unspentOutputs, lockedOps, account, minconf, bsHeight) ==
    { output \in unspentOutputs :
        /\ confirmed(minconf, output.height, bsHeight)
        /\ output.coinbase =>
              confirmed(CoinbaseMaturity, output.height, bsHeight)
        /\ output.op \notin lockedOps
        /\ output.class = "P2PKH"
        /\ output.acct = account }

\* ------------------------------------------------------------- the state
VARIABLES
    locked,            \* waddrmgr.Manager.IsLocked()
    passphrase,        \* the manager's private passphrase
    timeout,           \* walletLocker's timeout channel:
                       \*   "nil", "pending" (timer running), "fired"
    lpc,               \* walletLocker's position: "select", "held" (blocked
                       \*   in <-holdChan), "notifyUnlock", "notifyLock"
                       \*   (blocked in notifyLockStateChange), "exited"
    lreq,              \* the unlock request being served in "notifyUnlock"
    lockStateChanges,  \* TRUE once ListenLockStatus made the channel
    observed,          \* the last values the lock-state subscriber received
    channels,          \* the other notification channels that are not nil:
                       \*   connectedBlocks, disconnectedBlocks, ...
    quit,              \* TRUE once Stop closed the quit channel
    notificationMu,    \* Wallet.notificationMu: "free", or the topic whose
                       \*   notify* call holds it
    npc,               \* for each topic, the position of the goroutine
                       \*   that calls its notify*: "idle", "lock" (in
                       \*   notificationMu.Lock()), "send" (in the send)
    tpc,               \* txCreator's position: "select", "hold", "stamp",
                       \*   "eligible", "build", "release", "reply";
                       \*   "done" after a createTx called on its own;
                       \*   "exited"
    txr,               \* the createTxRequest txCreator is serving
    tsteps,            \* steps txToPairs has taken for that request
    teligible,         \* the eligible credits txToPairs found
    tres,              \* the createTxResponse to send
    cpc,               \* each caller's position in its API call
    ret,               \* the return the last step made, if it made one:
                       \*   caller and value
    ctx,               \* the CreatedTx a SendPairs caller holds
    unspent,           \* wtxmgr.Store: the unspent credits
    lockedOutpoints,   \* Wallet.lockedOutpoints: the outpoints LockOutpoint
                       \*   has excluded from spending
    built,             \* the outpoints spent by the transactions createTx
                       \*   has returned
    nTx,               \* SendPairs calls started
    pcall,             \* a call of estimateTxSize, topUp or minimumFee made
                       \*   on its own: arguments and result
    spc,               \* each caller's position in Wallet.Stop: "idle",
                       \*   "select" (has read w.quit), "close", "chain"
    closes,            \* close(quit) executed: the second one panics
    chainStops         \* w.chainSvr.Stop() calls made

lockerVars == << locked, passphrase, timeout, lpc, lreq >>
producerVars == << notificationMu, npc >>
notifyVars == << lockStateChanges, observed, channels, quit, producerVars >>
txcVars == << tpc, txr, tsteps, teligible, tres >>
clientVars == << cpc, ret, ctx >>
storeVars == << unspent, lockedOutpoints, built, nTx >>
callVars == << pcall, spc, closes, chainStops >>
vars == << lockerVars, notifyVars, txcVars, clientVars, storeVars,
          callVars >>

\* The six notification channels of the Wallet, and those whose notify* is
\* called by other goroutines than walletLocker.
Topics ==
    {"connectedBlocks", "disconnectedBlocks", "lockStateChanges",
     "confirmedBalance", "unconfirmedBalance", "relevantTxs"}
Producers == Topics \ {"lockStateChanges"}

NoReq == [client |-> 0, timeout |-> 0]
\* No call of a function on its own.
NoCall ==
    [fn |-> "none", numInputs |-> 0, numOutputs |-> 0, incr |-> 0,
     size |-> 0, outputs |-> << >>, credits |-> << >>, height |-> 0,
     disallowFree |-> FALSE, amount |-> 0, done |-> FALSE, res |-> 0,
     popped |-> 0]
NoRet == [client |-> 0, val |-> "none"]
NoTxr == [client |-> 0, pairs |-> << >>, minconf |-> 0]
NoTx == [err |-> "none", inputs |-> {}, outs |-> << >>,
         changeIdx |-> -1]

\* The initial credits: mined at height 1, P2PKH, account 0, amounts 3, 5, ..
InitCredits ==
    { [op |-> i, amt |-> 2 * i + 1, height |-> 1, coinbase |-> FALSE,
       class |-> "P2PKH", acct |-> 0] : i \in 1 .. NumCredits }

\* The amount and the confirmation depth the SendPairs callers ask for: with
\* a fee of 1 the amount leaves change from one credit and none from another.
PayAmounts == {2}
MinConfs == {1}
\* Lengths of a P2PKH signature script for a compressed key.
SigScriptLens == {106, 108}

\* Open: the wallet as constructed, with the manager locked.
Init ==
    /\ locked = TRUE
    /\ passphrase = 1
    /\ timeout = "nil"
    /\ lpc = "select"
    /\ lreq = NoReq
    /\ lockStateChanges = FALSE
    /\ observed = << >>
    /\ channels = {}
    /\ quit = FALSE
    /\ notificationMu = "free"
    /\ npc = [t \in Producers |-> "idle"]
    /\ tpc = "select"
    /\ txr = NoTxr
    /\ tsteps = << >>
    /\ teligible = {}
    /\ tres = NoTx
    /\ cpc = [c \in Clients |-> "idle"]
    /\ ret = NoRet
    /\ ctx = [c \in Clients |-> NoTx]
    /\ unspent = InitCredits
    /\ lockedOutpoints = {}
    /\ built = {}
    /\ nTx = 0
    /\ pcall = NoCall
    /\ spc = [c \in Clients |-> "idle"]
    /\ closes = 0
    /\ chainStops = 0

\* ------------------------------------------------- the address manager
\* Manager.Unlock(passphrase), as Wallet.Unlock documents it: the manager is
\* unlocked by the right passphrase, and "will be locked if the passphrase
\* is incorrect or any other error occurs during the unlock".
ManagerUnlock(pass) ==
    IF pass = passphrase
    THEN [err |-> FALSE, locked |-> FALSE]
    ELSE [err |-> TRUE, locked |-> TRUE]

\* Manager.Lock(): locks an unlocked manager; locking a locked manager is
\* the error walletLocker logs.
ManagerLock ==
    IF locked
    THEN [err |-> TRUE, locked |-> TRUE]
    ELSE [err |-> FALSE, locked |-> TRUE]

\* Manager.ChangePassphrase(old, new, true, ..): "the lock state will be
\* the same as it was before the password change".
ManagerChangePassphrase(old, new) ==
    IF old = passphrase
    THEN [err |-> FALSE, passphrase |-> new]
    ELSE [err |-> TRUE, passphrase |-> passphrase]

\* A step in which no call returns.
NoReturn == ret' = NoRet

\* ------------------------------------------------------ the subscriber
\* What the lock-state subscriber has received, the oldest value dropped
\* once MaxObserved are remembered.
Observe(v) ==
    IF Len(observed) < MaxObserved THEN Append(observed, v)
    ELSE Append(Tail(observed), v)

\* ListenLockStatus: the first call makes the channel.
ListenLockStatus ==
    /\ ~lockStateChanges
    /\ lockStateChanges' = TRUE
    /\ NoReturn
    /\ UNCHANGED << lockerVars, observed, channels, quit, producerVars, callVars,
                    txcVars, cpc, ctx, storeVars >>

\* --------------------------------------------------- the API callers
\* Each call parks its caller in the send on the request channel; the
\* arguments it sends are drawn when the request is received.
Call(c, pos) ==
    /\ cpc[c] = "idle"
    /\ cpc' = [cpc EXCEPT ![c] = pos]
    /\ NoReturn

\* Wallet.Unlock(passphrase, timeout): w.unlockRequests <- unlockRequest{..}
Unlock(c) ==
    /\ Call(c, "unlockSend")
    /\ UNCHANGED << lockerVars, notifyVars, callVars, txcVars, ctx, storeVars >>

\* Wallet.Lock(): w.lockRequests <- struct{}{}
Lock(c) ==
    /\ Call(c, "lockSend")
    /\ UNCHANGED << lockerVars, notifyVars, callVars, txcVars, ctx, storeVars >>

\* Wallet.HoldUnlock(): w.holdUnlockRequests <- req
HoldUnlock(c) ==
    /\ Call(c, "holdSend")
    /\ UNCHANGED << lockerVars, notifyVars, callVars, txcVars, ctx, storeVars >>

\* Wallet.ChangePassphrase(old, new): w.changePassphrase <- request
ChangePassphrase(c) ==
    /\ Call(c, "cpSend")
    /\ UNCHANGED << lockerVars, notifyVars, callVars, txcVars, ctx, storeVars >>

\* Return r to caller c, who goes back to idle.
Return(c, r) ==
    /\ cpc' = [cpc EXCEPT ![c] = "idle"]
    /\ ret' = [client |-> c, val |-> r]

\* ------------------------------------------------------- walletLocker
\* A walletLocker that serves its select while a token is out.
AtSelectOrHeld == lpc \in {"select", "held"}

\* walletLocker is in its top-level select.
AtSelect == lpc = "select"

\* The code after the select: "Select statement fell through by an explicit
\* lock or the timer expiring.  Lock the manager here."
LockManager ==
    IF timeout # "nil"
    THEN /\ timeout' = "nil"
         /\ locked' = ManagerLock.locked
         /\ lpc' = IF ~ManagerLock.err /\ lockStateChanges
                   THEN "notifyLock" ELSE "select"
    ELSE /\ lpc' = "select"
         /\ UNCHANGED << timeout, locked >>

\* An unlock that starts a timer whatever the timeout is.
NewTimeoutAlways(t) == "pending"

\* The timeout channel an unlock request leaves behind.
NewTimeout(t) == IF t = 0 THEN "nil" ELSE "pending"

\* An unlock case that drops the pending timer when the manager refuses.
LockerUnlockDropsTimer(c, p, t) ==
    /\ AtSelect
    /\ cpc[c] = "unlockSend"
    /\ LET r == ManagerUnlock(p)
       IN  /\ locked' = r.locked
           /\ IF r.err
              THEN /\ Return(c, "UnlockErr")
                   /\ timeout' = "nil"
                   /\ UNCHANGED << lpc, lreq >>
              ELSE IF lockStateChanges
              THEN /\ lpc' = "notifyUnlock"
                   /\ lreq' = [client |-> c, timeout |-> t]
                   /\ cpc' = [cpc EXCEPT ![c] = "unlockWait"]
                   /\ NoReturn /\ UNCHANGED timeout
              ELSE /\ timeout' = NewTimeout(t)
                   /\ Return(c, "UnlockOk")
                   /\ UNCHANGED << lpc, lreq >>
    /\ UNCHANGED << passphrase, notifyVars, callVars, txcVars, ctx, storeVars >>

\* case req := <-w.unlockRequests, the request carrying passphrase p and
\* timeout t.
LockerUnlock(c, p, t) ==
    /\ AtSelect
    /\ cpc[c] = "unlockSend"
    /\ LET r == ManagerUnlock(p)
       IN  /\ locked' = r.locked
           /\ IF r.err
              THEN /\ Return(c, "UnlockErr")
                   /\ UNCHANGED << timeout, lpc, lreq >>
              ELSE IF lockStateChanges
              THEN \* blocked in notifyLockStateChange(false)
                   /\ lpc' = "notifyUnlock"
                   /\ lreq' = [client |-> c, timeout |-> t]
                   /\ cpc' = [cpc EXCEPT ![c] = "unlockWait"]
                   /\ NoReturn /\ UNCHANGED timeout
              ELSE /\ timeout' = NewTimeout(t)
                   /\ Return(c, "UnlockOk")
                   /\ UNCHANGED << lpc, lreq >>
    /\ UNCHANGED << passphrase, notifyVars, callVars, txcVars, ctx, storeVars >>

\* The subscriber receives false; walletLocker sets the timer and replies.
LockerUnlockNotified ==
    /\ lpc = "notifyUnlock"
    /\ observed' = Observe(FALSE)
    /\ timeout' = NewTimeout(lreq.timeout)
    /\ Return(lreq.client, "UnlockOk")
    /\ lpc' = "select"
    /\ lreq' = NoReq
    /\ UNCHANGED << locked, passphrase, lockStateChanges, channels, quit,
                    producerVars, callVars, txcVars, ctx, storeVars >>

\* A changePassphrase case that leaves the manager locked and without timer.
LockerChangePassphraseLocks(c, old, new) ==
    /\ AtSelect
    /\ cpc[c] = "cpSend"
    /\ LET r == ManagerChangePassphrase(old, new)
       IN  /\ passphrase' = r.passphrase
           /\ Return(c, IF r.err THEN "ChangeErr" ELSE "ChangeOk")
    /\ locked' = TRUE
    /\ timeout' = "nil"
    /\ UNCHANGED << lpc, lreq, notifyVars, callVars, txcVars, ctx, storeVars >>

\* case req := <-w.changePassphrase, the request carrying old and new.
LockerChangePassphrase(c, old, new) ==
    /\ AtSelect
    /\ cpc[c] = "cpSend"
    /\ LET r == ManagerChangePassphrase(old, new)
       IN  /\ passphrase' = r.passphrase
           /\ Return(c, IF r.err THEN "ChangeErr" ELSE "ChangeOk")
    /\ UNCHANGED << locked, timeout, lpc, lreq, notifyVars, callVars, txcVars, ctx,
                    storeVars >>

\* A hold case that hands the token over without waiting for its release.
LockerHoldNoWait(c) ==
    /\ AtSelect
    /\ cpc[c] = "holdSend"
    /\ IF locked
       THEN Return(c, "ErrLocked")
       ELSE /\ cpc' = [cpc EXCEPT ![c] = "holding"]
            /\ NoReturn
    /\ UNCHANGED << lockerVars, notifyVars, callVars, txcVars, ctx, storeVars >>

\* case req := <-w.holdUnlockRequests, from a caller of HoldUnlock: a locked
\* manager closes req; otherwise the token is handed over and walletLocker
\* blocks in <-holdChan.
LockerHold(c) ==
    /\ AtSelect
    /\ cpc[c] = "holdSend"
    /\ IF locked
       THEN /\ Return(c, "ErrLocked")
            /\ UNCHANGED lpc
       ELSE /\ cpc' = [cpc EXCEPT ![c] = "holding"]
            /\ lpc' = "held"
            /\ NoReturn
    /\ UNCHANGED << locked, passphrase, timeout, lreq, notifyVars, callVars, txcVars,
                    ctx, storeVars >>

\* A release that always continues with the top-level select.
AfterReleaseContinue ==
    /\ lpc' = "select"
    /\ UNCHANGED << timeout, locked >>

\* After <-holdChan: "If .. the timeout has expired, lock it now".
AfterRelease ==
    IF timeout = "fired"
    THEN LockManager
    ELSE /\ lpc' = "select"
         /\ UNCHANGED << timeout, locked >>

\* HeldUnlock.Release by a caller: c <- struct{}{} meets <-holdChan.
Release(c) ==
    /\ lpc = "held"
    /\ cpc[c] = "holding"
    /\ AfterRelease
    /\ Return(c, "Released")
    /\ UNCHANGED << passphrase, lreq, notifyVars, callVars, txcVars, ctx, storeVars >>

\* case <-w.lockRequests: Wallet.Lock() returns as soon as the request is
\* received; the select falls through.
LockerLock(c) ==
    /\ AtSelect
    /\ cpc[c] = "lockSend"
    /\ Return(c, "LockSent")
    /\ LockManager
    /\ UNCHANGED << passphrase, lreq, notifyVars, callVars, txcVars, ctx, storeVars >>

\* case <-timeout: the timer's value is received; the select falls through.
LockerTimeout ==
    /\ AtSelect
    /\ timeout = "fired"
    /\ LockManager
    /\ NoReturn
    /\ UNCHANGED << passphrase, lreq, notifyVars, callVars, txcVars, cpc, ctx,
                    storeVars >>

\* The subscriber receives true; walletLocker returns to its select.
LockerLockNotified ==
    /\ lpc = "notifyLock"
    /\ observed' = Observe(TRUE)
    /\ lpc' = "select"
    /\ NoReturn
    /\ UNCHANGED << locked, passphrase, timeout, lreq, lockStateChanges,
                    channels, quit, producerVars, callVars, txcVars, cpc, ctx,
                    storeVars >>

\* The timer made by time.After delivers its value.
TimerFires ==
    /\ timeout = "pending"
    /\ timeout' = "fired"
    /\ NoReturn
    /\ UNCHANGED << locked, passphrase, lpc, lreq, notifyVars, callVars, txcVars,
                    cpc, ctx, storeVars >>

\* ---------------------------------------------------------- txCreator
\* A txCreator that receives requests wherever it is.
TxcAlwaysReady == TRUE

\* txCreator is in its select, ready to receive a request.
TxcAtSelect == tpc = "select"

\* Wallet.SendPairs -> CreateSimpleTx: w.createTxRequests <- req
SendPairs(c) ==
    /\ nTx < MaxTx
    /\ Call(c, "createSend")
    /\ nTx' = nTx + 1
    /\ UNCHANGED << lockerVars, notifyVars, callVars, txcVars, ctx, unspent,
                    lockedOutpoints, built >>

\* case txr := <-w.createTxRequests, the request paying amt with minconf.
TxcReceive(c, amt, minconf) ==
    /\ TxcAtSelect
    /\ cpc[c] = "createSend"
    /\ tpc' = "hold"
    /\ txr' = [client |-> c, pairs |-> << [addr |-> "A", amt |-> amt] >>,
               minconf |-> minconf]
    /\ tsteps' = << >>
    /\ tres' = NoTx
    /\ cpc' = [cpc EXCEPT ![c] = "createWait"]
    /\ NoReturn
    /\ UNCHANGED << lockerVars, notifyVars, callVars, teligible, ctx, storeVars >>

\* A txToPairs that goes on without looking at HoldUnlock's error.
TxcHoldUnchecked ==
    /\ tpc = "hold"
    /\ AtSelect
    /\ IF locked
       THEN UNCHANGED lpc
       ELSE lpc' = "held"
    /\ tpc' = "stamp"
    /\ tsteps' = Append(tsteps, "hold")
    /\ NoReturn
    /\ UNCHANGED << locked, passphrase, timeout, lreq, notifyVars, callVars, txr,
                    teligible, tres, cpc, ctx, storeVars >>

\* txToPairs: heldUnlock, err := w.HoldUnlock(), served by walletLocker.
\* On the error txToPairs returns it at once.
TxcHold ==
    /\ tpc = "hold"
    /\ AtSelect
    /\ IF locked
       THEN /\ tres' = [NoTx EXCEPT !.err = "ErrLocked"]
            /\ tpc' = "reply"
            /\ UNCHANGED << lpc, tsteps >>
       ELSE /\ lpc' = "held"
            /\ tpc' = "stamp"
            /\ tsteps' = Append(tsteps, "hold")
            /\ UNCHANGED tres
    /\ NoReturn
    /\ UNCHANGED << locked, passphrase, timeout, lreq, notifyVars, callVars, txr,
                    teligible, cpc, ctx, storeVars >>

\* A txToPairs that returns the BlockStamp error without the release.
TxcBlockStampKeepsHold ==
    /\ tpc = "stamp"
    /\ tsteps' = Append(tsteps, "stamp")
    /\ \E ok \in BOOLEAN :
          IF ok
          THEN tpc' = "eligible" /\ UNCHANGED tres
          ELSE /\ tpc' = "reply"
               /\ tres' = [NoTx EXCEPT !.err = "BlockStamp"]
    /\ NoReturn
    /\ UNCHANGED << lockerVars, notifyVars, callVars, txr, teligible, cpc, ctx,
                    storeVars >>

\* bs, err := w.chainSvr.BlockStamp()
TxcBlockStamp ==
    /\ tpc = "stamp"
    /\ tsteps' = Append(tsteps, "stamp")
    /\ \E ok \in BOOLEAN :
          IF ok
          THEN tpc' = "eligible" /\ UNCHANGED tres
          ELSE /\ tpc' = "release"
               /\ tres' = [NoTx EXCEPT !.err = "BlockStamp"]
    /\ NoReturn
    /\ UNCHANGED << lockerVars, notifyVars, callVars, txr, teligible, cpc, ctx,
                    storeVars >>

\* eligible, err := w.findEligibleOutputs(account, minconf, bs)
TxcEligible ==
    /\ tpc = "eligible"
    /\ tsteps' = Append(tsteps, "eligible")
    /\ \E ok \in BOOLEAN :
          IF ok
          THEN /\ tpc' = "build"
               /\ teligible' = findEligibleOutputs(unspent, lockedOutpoints,
                                                   0, txr.minconf,
                                                   TipHeight)
               /\ UNCHANGED tres
          ELSE /\ tpc' = "release"
               /\ tres' = [NoTx EXCEPT !.err = "UnspentOutputs"]
               /\ UNCHANGED teligible
    /\ NoReturn
    /\ UNCHANGED << lockerVars, notifyVars, callVars, txr, cpc, ctx, storeVars >>

\* return createTx(eligible, pairs, bs, w.FeeIncrement, w.Manager, account,
\*                 w.NewChangeAddress, w.chainParams, w.DisallowFree)
TxcBuild ==
    /\ tpc = "build"
    /\ tsteps' = Append(tsteps, "build")
    /\ \E sigLen \in SigScriptLens, r \in 0 .. 1, caOk \in BOOLEAN :
          LET env == [minAmount |-> 0, incr |-> defaultFeeIncrement,
                      height |-> TipHeight, disallowFree |-> FALSE,
                      mgrLocked |-> locked, sigLen |-> sigLen,
                      rnd |-> << r >>, changeAddrOk |-> caOk]
              tx == createTx(teligible, txr.pairs, env)
          IN  tres' = [err |-> tx.err,
                       inputs |-> { tx.inputs[i].op :
                                      i \in 1 .. Len(tx.inputs) },
                       outs |-> tx.outs, changeIdx |-> tx.changeIdx]
    /\ tpc' = "release"
    /\ teligible' = {}
    /\ NoReturn
    /\ UNCHANGED << lockerVars, notifyVars, callVars, txr, cpc, ctx, storeVars >>

\* defer heldUnlock.Release()
TxcRelease ==
    /\ tpc = "release"
    /\ lpc = "held"
    /\ AfterRelease
    /\ tpc' = "reply"
    /\ tsteps' = Append(tsteps, "release")
    /\ NoReturn
    /\ UNCHANGED << passphrase, lreq, notifyVars, callVars, txr, teligible, tres,
                    cpc, ctx, storeVars >>

\* txr.resp <- createTxResponse{tx, err}, met by resp := <-req.resp in
\* CreateSimpleTx; SendPairs returns the error or goes on to record the tx.
TxcReply ==
    /\ tpc = "reply"
    /\ LET c == txr.client
       IN  IF tres.err # "none"
           THEN /\ Return(c, tres.err)
                /\ UNCHANGED << ctx, built >>
           ELSE /\ cpc' = [cpc EXCEPT ![c] = "insertTx"]
                /\ ctx' = [ctx EXCEPT ![c] = tres]
                /\ built' = built \cup tres.inputs
                /\ NoReturn
    /\ tpc' = "select"
    /\ txr' = NoTxr
    /\ tsteps' = << >>
    /\ tres' = NoTx
    /\ UNCHANGED << lockerVars, notifyVars, callVars, teligible, unspent,
                    lockedOutpoints, nTx >>

\* ------------------------------------------------ SendPairs, after the build
\* An InsertTx whose error SendPairs does not look at.
InsertTxErrorIgnored(c) ==
    /\ cpc[c] = "insertTx"
    /\ cpc' = [cpc EXCEPT ![c] = "broadcast"]
    /\ NoReturn
    /\ UNCHANGED << lockerVars, notifyVars, callVars, txcVars, ctx, storeVars >>

\* err = w.TxStore.InsertTx(rec, nil): the inputs of the recorded unmined
\* transaction are no longer unspent.
InsertTx(c) ==
    /\ cpc[c] = "insertTx"
    /\ \E ok \in BOOLEAN :
          IF ok
          THEN /\ unspent' = { u \in unspent : u.op \notin ctx[c].inputs }
               /\ cpc' = [cpc EXCEPT ![c] = IF ctx[c].changeIdx >= 0
                                             THEN "addCredit"
                                             ELSE "broadcast"]
               /\ NoReturn /\ UNCHANGED ctx
          ELSE /\ Return(c, "StoreErr")
               /\ ctx' = [ctx EXCEPT ![c] = NoTx]
               /\ UNCHANGED unspent
    /\ UNCHANGED << lockerVars, notifyVars, callVars, txcVars, lockedOutpoints, built,
                    nTx >>

\* The outpoint of the change output of a transaction, which its hash
\* names: a number that tells apart the sets of credits transactions spend.
RECURSIVE TxCode(_)
TxCode(inputs) ==
    IF inputs = {} THEN 0
    ELSE LET op == CHOOSE x \in inputs : TRUE
         IN  2 ^ (op - 1) + TxCode(inputs \ {op})

\* err = w.TxStore.AddCredit(rec, nil, uint32(createdTx.ChangeIndex), true):
\* the output at ChangeIndex becomes an unmined credit of the wallet.
AddCredit(c) ==
    /\ cpc[c] = "addCredit"
    /\ \E ok \in BOOLEAN :
          IF ok /\ ctx[c].changeIdx < Len(ctx[c].outs)
          THEN /\ unspent' = unspent \cup
                    { [op |-> NumCredits + TxCode(ctx[c].inputs),
                       amt |-> ctx[c].outs[ctx[c].changeIdx + 1].value,
                       height |-> -1, coinbase |-> FALSE,
                       class |-> "P2PKH", acct |-> 0] }
               /\ cpc' = [cpc EXCEPT ![c] = "broadcast"]
               /\ NoReturn /\ UNCHANGED ctx
          ELSE /\ Return(c, "StoreErr")
               /\ ctx' = [ctx EXCEPT ![c] = NoTx]
               /\ UNCHANGED unspent
    /\ UNCHANGED << lockerVars, notifyVars, callVars, txcVars, lockedOutpoints, built,
                    nTx >>

\* return w.chainSvr.SendRawTransaction(&rec.MsgTx, false)
SendRawTransaction(c) ==
    /\ cpc[c] = "broadcast"
    /\ \E ok \in BOOLEAN :
          IF ok
          THEN Return(c, "Sent")
          ELSE Return(c, "SendErr")
    /\ ctx' = [ctx EXCEPT ![c] = NoTx]
    /\ UNCHANGED << lockerVars, notifyVars, callVars, txcVars, storeVars >>

\* ------------------------------------------------------ the specification
\* Callers of the custody API, with a lock-state subscriber.
Next ==
    \/ ListenLockStatus
    \/ \E c \in Clients : Unlock(c)
    \/ \E c \in Clients : Lock(c)
    \/ \E c \in Clients : HoldUnlock(c)
    \/ \E c \in Clients : ChangePassphrase(c)
    \/ \E c \in Clients, p \in Passphrases, t \in Timeouts :
          LockerUnlock(c, p, t)
    \/ LockerUnlockNotified
    \/ \E c \in Clients, old \in Passphrases, new \in Passphrases :
          LockerChangePassphrase(c, old, new)
    \/ \E c \in Clients : LockerHold(c)
    \/ \E c \in Clients : Release(c)
    \/ \E c \in Clients : LockerLock(c)
    \/ LockerTimeout
    \/ LockerLockNotified
    \/ TimerFires

Spec == Init /\ [][Next]_vars

\* Callers of SendPairs next to callers of Unlock (with the right
\* passphrase), Lock and HoldUnlock; nobody listens to the lock state.
NextSend ==
    \/ \E c \in Clients : Unlock(c)
    \/ \E c \in Clients : Lock(c)
    \/ \E c \in Clients : HoldUnlock(c)
    \/ \E c \in Clients : SendPairs(c)
    \/ \E c \in Clients, t \in Timeouts : LockerUnlock(c, passphrase, t)
    \/ \E c \in Clients : LockerHold(c)
    \/ \E c \in Clients : Release(c)
    \/ \E c \in Clients : LockerLock(c)
    \/ LockerTimeout
    \/ TimerFires
    \/ \E c \in Clients, amt \in PayAmounts, m \in MinConfs :
          TxcReceive(c, amt, m)
    \/ TxcHold
    \/ TxcBlockStamp
    \/ TxcEligible
    \/ TxcBuild
    \/ TxcRelease
    \/ TxcReply
    \/ \E c \in Clients : InsertTx(c)
    \/ \E c \in Clients : AddCredit(c)
    \/ \E c \in Clients : SendRawTransaction(c)

SpecSend == Init /\ [][NextSend]_vars

\* ------------------------------------------- createTx called on its own
\* The credits a direct call of createTx (as TestCreateTx makes it) is
\* given: a credit rich enough for a free transaction, small P2PKH credits,
\* and credits whose scripts signMsgTx does not sign.
CallCredits ==
    { [op |-> 1, amt |-> 20000000, height |-> 1, coinbase |-> FALSE,
       class |-> "P2PKH", acct |-> 0],
      [op |-> 2, amt |-> 3, height |-> 1, coinbase |-> FALSE,
       class |-> "P2PKH", acct |-> 0],
      [op |-> 3, amt |-> 5, height |-> 1, coinbase |-> FALSE,
       class |-> "P2PKH", acct |-> 0],
      [op |-> 4, amt |-> 4, height |-> 1, coinbase |-> FALSE,
       class |-> "AnyoneCanSpend", acct |-> 0],
      [op |-> 5, amt |-> 6, height |-> 1, coinbase |-> FALSE,
       class |-> "NonStandard", acct |-> 0],
      [op |-> 6, amt |-> 7, height |-> 1, coinbase |-> FALSE,
       class |-> "PubKey", acct |-> 0] }

\* The unspent credits of the store txToPairs selects from: two spendable
\* ones, an unmined one, an immature coinbase, one with a script that is no
\* P2PKH and one of another account.
StoreCredits ==
    { [op |-> 1, amt |-> 5, height |-> 1, coinbase |-> FALSE,
       class |-> "P2PKH", acct |-> 0],
      [op |-> 2, amt |-> 3, height |-> 1, coinbase |-> FALSE,
       class |-> "P2PKH", acct |-> 0],
      [op |-> 3, amt |-> 4, height |-> -1, coinbase |-> FALSE,
       class |-> "P2PKH", acct |-> 0],
      [op |-> 4, amt |-> 9, height |-> 1, coinbase |-> TRUE,
       class |-> "P2PKH", acct |-> 0],
      [op |-> 5, amt |-> 9, height |-> 1, coinbase |-> FALSE,
       class |-> "P2SH", acct |-> 0],
      [op |-> 6, amt |-> 9, height |-> 1, coinbase |-> FALSE,
       class |-> "P2PKH", acct |-> 1] }

\* TestCreateTx: outputs 1 .. 5 of the transaction txInfo, unmined, of
\* 0.03, 0.09, 0.1, 0.15 and 0.001 coins, and the pay-list of 15e6 and
\* 10e6 satoshi in either order.
TestCredits ==
    { [op |-> 1, amt |-> 3000, height |-> -1, coinbase |-> FALSE,
       class |-> "P2PKH", acct |-> 0],
      [op |-> 2, amt |-> 9000, height |-> -1, coinbase |-> FALSE,
       class |-> "P2PKH", acct |-> 0],
      [op |-> 3, amt |-> 10000, height |-> -1, coinbase |-> FALSE,
       class |-> "P2PKH", acct |-> 0],
      [op |-> 4, amt |-> 15000, height |-> -1, coinbase |-> FALSE,
       class |-> "P2PKH", acct |-> 0],
      [op |-> 5, amt |-> 100, height |-> -1, coinbase |-> FALSE,
       class |-> "P2PKH", acct |-> 0] }
\* Pay-lists with a string that is no address, before or after an amount
\* that is not positive, and the credits they are tried with.
BadAddressPayLists ==
    { << [addr |-> a, amt |-> x] >> :
        a \in {"not an address"}, x \in {0, 2} }
    \cup
    { << [addr |-> a[1], amt |-> x[1]], [addr |-> a[2], amt |-> x[2]] >> :
        a \in { << "A", "not an address" >>, << "not an address", "B" >> },
        x \in [1 .. 2 -> {0, 2}] }
BadAddressCredits ==
    { c \in CallCredits : c.class = "P2PKH" /\ c.amt < 10 }
\* Six credits of addresses with uncompressed keys, five of them unmined,
\* and a pay-list that the five unmined ones cover with 3 to spare.  A
\* signature script for an uncompressed key has 1 + 72 + 1 + 65 bytes.
UncompressedKeyCredits ==
    { [op |-> i, amt |-> 60000006 - i, height |-> -1, coinbase |-> FALSE,
       class |-> "P2PKH", acct |-> 0] : i \in 1 .. 5 }
    \cup
    { [op |-> 6, amt |-> 60000000, height |-> 1, coinbase |-> FALSE,
       class |-> "P2PKH", acct |-> 0] }
UncompressedKeyPayLists ==
    { << [addr |-> "A", amt |-> 150000006],
         [addr |-> "B", amt |-> 150000006] >> }
SigScriptLensOf(eligible) ==
    IF eligible = UncompressedKeyCredits THEN {139} ELSE SigScriptLens

TestPayLists ==
    { << [addr |-> "A", amt |-> 15000], [addr |-> "B", amt |-> 10000] >>,
      << [addr |-> "B", amt |-> 10000], [addr |-> "A", amt |-> 15000] >> }

\* The outpoints LockOutpoint may have locked.
LockableOutpoints == {1, 3}

\* The amounts of a pay-list, and the pay-lists in the order addOutputs
\* ranges over them.
CallAmounts == {-1, 0, 2, 8, 19999999, 20000000}
AddrNames == << "A", "B", "C", "D" >>
PayList(amts) ==
    [i \in 1 .. Len(amts) |-> [addr |-> AddrNames[i], amt |-> amts[i]]]
PayLists ==
    { PayList(amts) :
        amts \in UNION { [1 .. n -> CallAmounts] : n \in 1 .. MaxPairs } }
StorePayLists == { PayList(<< 2 >>), PayList(<< 6 >>) }
CallMinConfs == {0, 1}
\* The fee increments createTx is called with: the default, twice the
\* default, and one larger than every credit.
FeeIncrements == {defaultFeeIncrement, 2 * defaultFeeIncrement, 30000000}

\* Either txToPairs has the block stamp and is about to compute the
\* eligible credits of a store, or createTx is about to be called with a
\* list of credits, or with the credits and the pay-list of TestCreateTx,
\* or with six credits of uncompressed keys, or with a pay-list that holds
\* a string that is no address.
InitCreate ==
    /\ locked = FALSE
    /\ passphrase = 1
    /\ timeout = "nil"
    /\ lpc = "select"
    /\ lreq = NoReq
    /\ lockStateChanges = FALSE
    /\ observed = << >>
    /\ channels = {}
    /\ quit = FALSE
    /\ notificationMu = "free"
    /\ npc = [t \in Producers |-> "idle"]
    /\ tsteps = << >>
    /\ tres = NoTx
    /\ cpc = [c \in Clients |-> "idle"]
    /\ ret = NoRet
    /\ ctx = [c \in Clients |-> NoTx]
    /\ built = {}
    /\ nTx = 0
    /\ pcall = NoCall
    /\ spc = [c \in Clients |-> "idle"]
    /\ closes = 0
    /\ chainStops = 0
    /\ \/ /\ tpc = "eligible"
          /\ unspent \in { S \in SUBSET StoreCredits :
                             Cardinality(S) <= MaxEligible }
          /\ lockedOutpoints \in SUBSET LockableOutpoints
          /\ teligible = {}
          /\ txr \in [client : {0}, pairs : StorePayLists,
                      minconf : CallMinConfs]
       \/ /\ tpc = "build"
          /\ unspent = {}
          /\ lockedOutpoints = {}
          /\ teligible \in { S \in SUBSET CallCredits :
                               Cardinality(S) <= MaxEligible }
          /\ txr \in [client : {0}, pairs : PayLists, minconf : {0}]
       \/ /\ tpc = "build"
          /\ unspent = {}
          /\ lockedOutpoints = {}
          /\ teligible = TestCredits
          /\ txr \in [client : {0}, pairs : TestPayLists, minconf : {0}]
       \/ /\ tpc = "build"
          /\ unspent = {}
          /\ lockedOutpoints = {}
          /\ teligible = UncompressedKeyCredits
          /\ txr \in [client : {0}, pairs : UncompressedKeyPayLists,
                      minconf : {0}]
       \/ /\ tpc = "build"
          /\ unspent = {}
          /\ lockedOutpoints = {}
          /\ teligible = BadAddressCredits
          /\ txr \in [client : {0}, pairs : BadAddressPayLists,
                      minconf : {0}]

\* createTx(eligible, pairs, bs, feeIncrement, mgr, account, changeAddress,
\* chainParams, disallowFree) and what it returns, kept with the arguments
\* of the call and with what its call of addOutputs returned.
CreateTxCall ==
    /\ tpc = "build"
    /\ \E incr \in FeeIncrements, disallowFree \in BOOLEAN,
          mgrLocked \in BOOLEAN, sigLen \in SigScriptLensOf(teligible),
          r \in 0 .. MaxPairs, caOk \in BOOLEAN :
          LET env == [minAmount |-> 0, incr |-> incr,
                      height |-> TipHeight, disallowFree |-> disallowFree,
                      mgrLocked |-> mgrLocked, sigLen |-> sigLen,
                      rnd |-> << r >>, changeAddrOk |-> caOk]
          IN  tres' = [tx |-> createTx(teligible, txr.pairs, env),
                       env |-> env,
                       added |-> addOutputs(<< >>, 0, txr.pairs)]
    /\ tpc' = "done"
    /\ NoReturn
    /\ UNCHANGED << lockerVars, notifyVars, callVars, txr, tsteps, teligible, cpc, ctx,
                    storeVars >>

NextCreate ==
    \/ TxcEligible
    \/ CreateTxCall

SpecCreate == InitCreate /\ [][NextCreate]_vars

\* ------------------------------- estimateTxSize, topUp and minimumFee
\* The calls of estimateTxSize(numInputs, numOutputs).
EstimateCalls ==
    { [NoCall EXCEPT !.fn = "estimateTxSize", !.numInputs = i,
                     !.numOutputs = o] :
        i \in 0 .. MaxCount, o \in 0 .. MaxCount }

\* The states the top-up loop of createTx is entered in: numInputs credits
\* are inputs already, up to two credits of 5 are left to pop, and the
\* outputs and the fee ask for amount + 1.
TopUpCalls ==
    { [NoCall EXCEPT !.fn = "topUp", !.numInputs = i, !.numOutputs = 1,
                     !.incr = defaultFeeIncrement, !.disallowFree = TRUE,
                     !.height = TipHeight, !.amount = a,
                     !.credits = [k \in 1 .. n |->
                                    [op |-> k, amt |-> 5, height |-> 1,
                                     coinbase |-> FALSE, class |-> "P2PKH",
                                     acct |-> 0]]] :
        i \in 0 .. MaxCount, a \in {0, 4, 9, 14}, n \in 0 .. 2 }

\* One credit of the given amount and block height.
FeeCredit(a, h) ==
    [op |-> 1, amt |-> a, height |-> h, coinbase |-> FALSE,
     class |-> "P2PKH", acct |-> 0]

\* The calls of minimumFee: fee increments below, at and above zero, sizes
\* on both sides of a kilobyte, outputs at and below a bitcent, and credits
\* on both sides of the priority threshold (57600 * 190 = 10944000, and
\* 57600 * 1000 = 57600000).  A call whose fee is below zero and is not
\* replaced by the increment returns coinutil.MaxSatoshi, 2.1e12 units,
\* which is beyond the integers of the model checker: of the calls with an
\* increment below zero, those of a kilobyte or more with an output below a
\* bitcent are drawn, where the fee is below the increment.
MinimumFeeCalls ==
    { c \in
        { [NoCall EXCEPT !.fn = "minimumFee", !.incr = i, !.size = sz,
                         !.outputs = outs, !.credits = cr, !.height = h,
                         !.disallowFree = d] :
            i \in {-1, 0, defaultFeeIncrement, 2 * defaultFeeIncrement},
            sz \in {190, 999, 1000, 2500},
            outs \in {<< [addr |-> "A", value |-> SatoshiPerBitcent] >>,
                      << [addr |-> "A", value |-> SatoshiPerBitcent - 1] >>,
                      << [addr |-> "A", value |-> 5 * SatoshiPerBitcent],
                         [addr |-> "B", value |-> 1] >>},
            cr \in {<< >>,
                    << FeeCredit(10944000, TipHeight) >>,
                    << FeeCredit(10944001, TipHeight) >>,
                    << FeeCredit(10944001, -1) >>,
                    << FeeCredit(5472001, TipHeight),
                       FeeCredit(60000000, -1) >>,
                    << FeeCredit(60000000, TipHeight) >>},
            h \in {TipHeight, TipHeight + 1},
            d \in BOOLEAN } :
        \/ c.incr >= 0
        \/ /\ c.size >= 1000
           /\ \E k \in 1 .. Len(c.outputs) :
                 c.outputs[k].value < SatoshiPerBitcent }

\* fee := minimumFee(incr, txLen, outputs, prevOutputs, height, disallowFree)
MinimumFeeCall ==
    /\ pcall.fn = "minimumFee"
    /\ ~pcall.done
    /\ pcall' = [pcall EXCEPT
                   !.done = TRUE,
                   !.res = minimumFee(pcall.incr, pcall.size, pcall.outputs,
                                      pcall.credits, pcall.height,
                                      pcall.disallowFree)]
    /\ NoReturn
    /\ UNCHANGED << lockerVars, notifyVars, txcVars, cpc, ctx, storeVars,
                    spc, closes, chainStops >>

\* size := estimateTxSize(numInputs, numOutputs)
EstimateTxSizeCall ==
    /\ pcall.fn = "estimateTxSize"
    /\ ~pcall.done
    /\ pcall' = [pcall EXCEPT
                   !.done = TRUE,
                   !.res = estimateTxSize(pcall.numInputs, pcall.numOutputs)]
    /\ NoReturn
    /\ UNCHANGED << lockerVars, notifyVars, txcVars, cpc, ctx, storeVars,
                    spc, closes, chainStops >>

\* for totalAdded < minAmount+feeEst { .. szEst += txInEstimate .. }, the
\* estimate it ends with and the credits it popped.
TopUpCall ==
    /\ pcall.fn = "topUp"
    /\ ~pcall.done
    /\ LET outs == << [addr |-> "A", value |-> pcall.amount] >>
           env == [minAmount |-> pcall.amount, incr |-> pcall.incr,
                   height |-> pcall.height,
                   disallowFree |-> pcall.disallowFree]
           st == topUp([ok |-> TRUE, eligible |-> pcall.credits,
                        inputs |-> << >>, totalAdded |-> 0,
                        szEst |-> estimateTxSize(pcall.numInputs,
                                                 pcall.numOutputs),
                        feeEst |-> pcall.incr, need |-> 0],
                       outs, env)
       IN  pcall' = [pcall EXCEPT !.done = TRUE, !.res = st.szEst,
                                  !.popped = Len(st.inputs)]
    /\ NoReturn
    /\ UNCHANGED << lockerVars, notifyVars, txcVars, cpc, ctx, storeVars,
                    spc, closes, chainStops >>

\* The wallet as constructed, and a call about to be made.
InitFee ==
    /\ locked = TRUE
    /\ passphrase = 1
    /\ timeout = "nil"
    /\ lpc = "select"
    /\ lreq = NoReq
    /\ lockStateChanges = FALSE
    /\ observed = << >>
    /\ channels = {}
    /\ quit = FALSE
    /\ notificationMu = "free"
    /\ npc = [t \in Producers |-> "idle"]
    /\ tpc = "select"
    /\ txr = NoTxr
    /\ tsteps = << >>
    /\ teligible = {}
    /\ tres = NoTx
    /\ cpc = [c \in Clients |-> "idle"]
    /\ ret = NoRet
    /\ ctx = [c \in Clients |-> NoTx]
    /\ unspent = InitCredits
    /\ lockedOutpoints = {}
    /\ built = {}
    /\ nTx = 0
    /\ pcall \in EstimateCalls \cup TopUpCalls \cup MinimumFeeCalls
    /\ spc = [c \in Clients |-> "idle"]
    /\ closes = 0
    /\ chainStops = 0

NextFee ==
    \/ EstimateTxSizeCall
    \/ TopUpCall
    \/ MinimumFeeCall

SpecFee == InitFee /\ [][NextFee]_vars

\* ------------------------------------------- the Listen* methods
\* A test that takes any channel for the one asked about.
SomeChannelMade(t) == lockStateChanges \/ channels # {}

\* w.<t> != nil
ChannelMade(t) ==
    IF t = "lockStateChanges" THEN lockStateChanges ELSE t \in channels

\* Listen<t>, once it has notificationMu: ErrDuplicateListen if the channel
\* exists, else make it and return it.
Listen(t) ==
    /\ notificationMu = "free"
    /\ IF ChannelMade(t)
       THEN /\ ret' = [client |-> 0, val |-> "ErrDuplicateListen",
                       topic |-> t]
            /\ UNCHANGED << lockStateChanges, channels >>
       ELSE /\ ret' = [client |-> 0, val |-> "nil", topic |-> t]
            /\ IF t = "lockStateChanges"
               THEN lockStateChanges' = TRUE /\ UNCHANGED channels
               ELSE channels' = channels \cup {t}
                    /\ UNCHANGED lockStateChanges
    /\ UNCHANGED << lockerVars, observed, quit, producerVars, callVars, txcVars, cpc,
                    ctx, storeVars >>

NextListen == \E t \in Topics : Listen(t)

SpecListen == Init /\ [][NextListen]_vars

\* ------------------------------------------------- the notify* methods
\* notify<t>(..) is called: its goroutine is in w.notificationMu.Lock().
NotifyCall(t) ==
    /\ npc[t] = "idle"
    /\ npc' = [npc EXCEPT ![t] = "lock"]
    /\ NoReturn
    /\ UNCHANGED << lockerVars, lockStateChanges, observed, channels, quit,
                    notificationMu, txcVars, cpc, ctx, storeVars,
                    callVars >>

\* notify<t> gets the mutex: with a nil channel it unlocks and returns, else
\* it blocks in "w.<t> <- value" with the mutex held.
NotifyAcquire(t) ==
    /\ npc[t] = "lock"
    /\ notificationMu = "free"
    /\ IF ChannelMade(t)
       THEN /\ notificationMu' = t
            /\ npc' = [npc EXCEPT ![t] = "send"]
       ELSE /\ npc' = [npc EXCEPT ![t] = "idle"]
            /\ UNCHANGED notificationMu
    /\ NoReturn
    /\ UNCHANGED << lockerVars, lockStateChanges, observed, channels, quit,
                    txcVars, cpc, ctx, storeVars, callVars >>

\* The subscriber of t receives the value; notify<t> unlocks and returns.
NotifyDeliver(t) ==
    /\ npc[t] = "send"
    /\ notificationMu' = "free"
    /\ npc' = [npc EXCEPT ![t] = "idle"]
    /\ NoReturn
    /\ UNCHANGED << lockerVars, lockStateChanges, observed, channels, quit,
                    txcVars, cpc, ctx, storeVars, callVars >>

\* The Listen* callers, the goroutines that notify and the subscribers.
NextNotify ==
    \/ \E t \in Topics : Listen(t)
    \/ \E t \in Producers : NotifyCall(t)
    \/ \E t \in Producers : NotifyAcquire(t)
    \/ \E t \in Producers : NotifyDeliver(t)

SpecNotify == Init /\ [][NextNotify]_vars

\* ------------------------------------------------------- Stop and quit
\* Stop: close(quit), unless it is closed already.
Stop ==
    /\ ~quit
    /\ quit' = TRUE
    /\ NoReturn
    /\ UNCHANGED << lockerVars, lockStateChanges, observed, channels,
                    producerVars, callVars, txcVars, cpc, ctx, storeVars >>

\* walletLocker: case <-quit: break out, then w.wg.Done()
LockerQuit ==
    /\ AtSelect
    /\ quit
    /\ lpc' = "exited"
    /\ NoReturn
    /\ UNCHANGED << locked, passphrase, timeout, lreq, notifyVars, callVars, txcVars,
                    cpc, ctx, storeVars >>

\* txCreator: case <-quit: break out, then w.wg.Done()
TxcQuit ==
    /\ TxcAtSelect
    /\ quit
    /\ tpc' = "exited"
    /\ NoReturn
    /\ UNCHANGED << lockerVars, notifyVars, callVars, txr, tsteps, teligible, tres,
                    cpc, ctx, storeVars >>

\* The SendPairs callers and the custody callers, with a Stop.
NextStop ==
    \/ NextSend
    \/ Stop
    \/ LockerQuit
    \/ TxcQuit

SpecStop == Init /\ [][NextStop]_vars

\* ------------------------------------------- Stop, statement by statement
\* A close of a closed channel has panicked and ended the process.
Panicked == \E c \in Clients : spc[c] = "panic"

\* Stop: w.quitMu.Lock(); quit := w.quit; w.quitMu.Unlock()
StopRead(c) ==
    /\ ~Panicked
    /\ spc[c] = "idle"
    /\ spc' = [spc EXCEPT ![c] = "select"]
    /\ NoReturn
    /\ UNCHANGED << lockerVars, notifyVars, txcVars, cpc, ctx, storeVars,
                    pcall, closes, chainStops >>

\* Stop: select { case <-quit: (return)  default: (go on to close) }
StopSelect(c) ==
    /\ ~Panicked
    /\ spc[c] = "select"
    /\ spc' = [spc EXCEPT ![c] = IF quit THEN "idle" ELSE "close"]
    /\ NoReturn
    /\ UNCHANGED << lockerVars, notifyVars, txcVars, cpc, ctx, storeVars,
                    pcall, closes, chainStops >>

\* Stop: close(quit), which panics when quit is closed already.
StopClose(c) ==
    /\ ~Panicked
    /\ spc[c] = "close"
    /\ closes' = closes + 1
    /\ quit' = TRUE
    /\ spc' = [spc EXCEPT ![c] = IF quit THEN "panic" ELSE "chain"]
    /\ NoReturn
    /\ UNCHANGED << lockerVars, lockStateChanges, observed, channels,
                    producerVars, txcVars, cpc, ctx, storeVars,
                    pcall, chainStops >>

\* Stop: w.chainSvrLock.Lock(); if w.chainSvr != nil { w.chainSvr.Stop() };
\* w.chainSvrLock.Unlock(), and the return.  SynchronizeRPC has set
\* w.chainSvr or it has not.
StopChain(c) ==
    /\ ~Panicked
    /\ spc[c] = "chain"
    /\ \E chainSvr \in BOOLEAN :
          chainStops' = IF chainSvr THEN chainStops + 1 ELSE chainStops
    /\ spc' = [spc EXCEPT ![c] = "idle"]
    /\ NoReturn
    /\ UNCHANGED << lockerVars, notifyVars, txcVars, cpc, ctx, storeVars,
                    pcall, closes >>

\* walletLocker and txCreator leave when quit is closed, unless the process
\* has ended.
LockerQuitRunning == ~Panicked /\ LockerQuit
TxcQuitRunning == ~Panicked /\ TxcQuit

NextStops ==
    \/ \E c \in Clients : StopRead(c)
    \/ \E c \in Clients : StopSelect(c)
    \/ \E c \in Clients : StopClose(c)
    \/ \E c \in Clients : StopChain(c)
    \/ LockerQuitRunning
    \/ TxcQuitRunning

SpecStops == Init /\ [][NextStops]_vars

\* ------------------------------------------------------------ the claims
\* The callers that hold a HeldUnlock token, and whether txToPairs holds it.
Holders == { c \in Clients : cpc[c] = "holding" }
TxcHolds == tpc \in {"stamp", "eligible", "build", "release"}
TokenOut == Holders # {} \/ TxcHolds

\* walletLocker has locked the manager and, if somebody listens, is
\* delivering lock-state = true before it looks at another request.
LockedAndNotifying ==
    /\ locked'
    /\ lockStateChanges => lpc' = "notifyLock"

\* Caller c's Unlock returns nil / an error in this step.
UnlockSucceeds(c) ==
    /\ cpc[c] \in {"unlockSend", "unlockWait"}
    /\ cpc'[c] = "idle"
    /\ ret' = [client |-> c, val |-> "UnlockOk"]
UnlockFails(c) ==
    /\ cpc[c] = "unlockSend"
    /\ cpc'[c] = "idle"
    /\ ret' = [client |-> c, val |-> "UnlockErr"]

\* C3: while a HeldUnlock token is out the manager is unlocked, walletLocker
\* is not delivering lock-state = true, and nothing reaches the subscriber:
\* neither the elapsed timer nor a Lock request is served before Release.
C3_NoLockWhileHeld ==
    /\ [](TokenOut => ~locked /\ lpc = "held")
    /\ [][TokenOut /\ TokenOut' => UNCHANGED << locked, observed >>]_vars

\* A token is out while the timer has fired and a Lock request is waiting.
C3_Witness ==
    /\ TokenOut
    /\ timeout = "fired"
    /\ \E c \in Clients : cpc[c] = "lockSend"

\* C5 (as claimed): when walletLocker has received a Lock request on an
\* unlocked manager, the manager is locked and lock-state = true is
\* notified, whatever timeout the preceding Unlock carried.
C5_LockAlwaysLocks ==
    [][\A c \in Clients :
          (cpc[c] = "lockSend" /\ cpc'[c] = "idle" /\ ~locked)
             => LockedAndNotifying]_vars

C7_ReleaseLocksIffExpired ==
    [][\A c \in Clients :
          (cpc[c] = "holding" /\ cpc'[c] = "idle")
             => IF timeout = "fired"
                THEN LockedAndNotifying /\ timeout' = "nil"
                ELSE ~locked' /\ timeout' = timeout /\ lpc' = "select"]_vars

\* A caller has released its token after the expiry and walletLocker, the
\* manager locked, is delivering lock-state = true.
C7_Witness ==
    \E c \in Clients :
       /\ cpc[c] = "idle" /\ ret = [client |-> c, val |-> "Released"]
       /\ locked /\ timeout = "nil" /\ lpc = "notifyLock"
       /\ \A d \in Clients : cpc[d] = "idle"

\* C8: when Unlock returns nil the manager is unlocked, the subscriber has
\* received false, and the timer is the one of this request: none for
\* timeout 0, a running one otherwise, never one that has already fired;
\* and without a timer nothing elapses.
C8_UnlockReplacesExpiry ==
    /\ [][\A c \in Clients :
             UnlockSucceeds(c)
                => /\ ~locked'
                   /\ timeout' # "fired"
                   /\ lockStateChanges
                         => /\ observed' = Observe(FALSE)
                            /\ timeout' = IF lreq.timeout = 0
                                          THEN "nil" ELSE "pending"
                   /\ \A t \in Timeouts :
                         LockerUnlock(c, passphrase, t)
                            => timeout' = IF t = 0 THEN "nil"
                                          ELSE "pending"]_vars
    /\ [][timeout = "nil" /\ ~UNCHANGED timeout
             => \E c \in Clients : UnlockSucceeds(c)]_vars

\* An Unlock with timeout 0 has returned nil: no timer, and the subscriber's
\* last value is false.
C8_Witness ==
    \E c \in Clients :
       /\ cpc[c] = "idle" /\ ret = [client |-> c, val |-> "UnlockOk"]
       /\ ~locked /\ timeout = "nil"
       /\ observed # << >> /\ ~observed[Len(observed)]

\* C9 (as claimed): an Unlock that fails leaves the custody state as it
\* was: same polarity, same timer, nothing notified.
C9_FailedUnlockChangesNothing ==
    [][\A c \in Clients :
          UnlockFails(c)
             => UNCHANGED << locked, timeout, lpc, observed >>]_vars

\* C9 (amended): an Unlock that fails returns the error, leaves the timer
\* and the subscriber alone, and leaves the manager locked.
C9_FailedUnlockLocks ==
    [][\A c \in Clients :
          UnlockFails(c)
             => locked' /\ UNCHANGED << timeout, lpc, observed >>]_vars

\* An Unlock has failed on an unlocked wallet whose timer is still running.
C9_Witness ==
    \E c \in Clients :
       /\ cpc[c] = "idle" /\ ret = [client |-> c, val |-> "UnlockErr"]
       /\ locked /\ timeout = "pending"

\* The callers whose build request txCreator has received and not answered.
Waiting == { c \in Clients : cpc[c] = "createWait" }

\* C1 (as claimed): no transaction createTx returns spends an outpoint that
\* a transaction it returned before spends, however the SendPairs calls
\* interleave.
C1_NoDoubleSpend ==
    (tpc = "reply" /\ tres.err = "none") => tres.inputs \cap built = {}

\* C2: txCreator serves at most one request at a time: it is in its select
\* exactly when no caller waits for a reply, and otherwise the one caller
\* waiting is the caller of the request it is working on.
C2_OneBuildAtATime ==
    /\ Cardinality(Waiting) <= 1
    /\ tpc = "select" <=> Waiting = {}
    /\ tpc # "select" => Waiting = {txr.client}
    /\ tpc \in {"select", "hold"} => tsteps = << >>

\* txCreator is building for one caller while another caller's request
\* waits to be received.
C2_Witness ==
    /\ tpc = "build"
    /\ \E c \in Clients : cpc[c] = "createSend"

\* C4: at most one HeldUnlock token is out, held by a caller or by
\* txToPairs; while it is out a HoldUnlock request, of a caller or of
\* txToPairs, stays unanswered.
C4_AtMostOneToken ==
    /\ [](Cardinality(Holders) + (IF TxcHolds THEN 1 ELSE 0) <= 1)
    /\ [][TokenOut
             => /\ \A c \in Clients :
                      cpc[c] = "holdSend" => cpc'[c] = "holdSend"
                /\ tpc = "hold" => tpc' = "hold"]_vars

\* A caller holds the token while txToPairs, serving another caller, asks
\* for it.
C4_Witness ==
    /\ Holders # {}
    /\ tpc = "hold"

\* C10: a HoldUnlock request served while the manager is locked returns the
\* already-locked error, hands out no token and leaves walletLocker's state
\* alone; CreateSimpleTx then returns that error, txToPairs having taken
\* none of its steps, and nothing is built or recorded.
C10_LockedHoldFails ==
    /\ [][\A c \in Clients :
             (cpc[c] = "holdSend" /\ cpc'[c] # "holdSend" /\ locked)
                => /\ cpc'[c] = "idle"
                   /\ ret' = [client |-> c, val |-> "ErrLocked"]
                   /\ UNCHANGED lockerVars]_vars
    /\ [][(tpc = "hold" /\ tpc' # "hold" /\ locked)
             => /\ tpc' = "reply"
                /\ tres'.err = "ErrLocked"
                /\ tsteps' = << >>
                /\ UNCHANGED lockerVars]_vars
    /\ [][(tpc = "reply" /\ tpc' # "reply" /\ tres.err = "ErrLocked")
             => /\ ret' = [client |-> txr.client, val |-> "ErrLocked"]
                /\ cpc'[txr.client] = "idle"
                /\ UNCHANGED << lockerVars, storeVars >>]_vars

\* CreateSimpleTx has met a locked wallet: txToPairs is about to return the
\* error without having taken a step.
C10_Witness ==
    /\ tpc = "reply"
    /\ tres.err = "ErrLocked"
    /\ tsteps = << >>
    /\ locked

\* ----------------------------------------------- the claims on createTx
\* The call of createTx has returned; it returned a transaction.
Called == tpc = "done"
Returned == Called /\ tres.tx.err = "none"

RECURSIVE SumAmt(_)
SumAmt(credits) ==
    IF credits = << >> THEN 0 ELSE Head(credits).amt + SumAmt(Tail(credits))
RECURSIVE SumValue(_)
SumValue(outs) ==
    IF outs = << >> THEN 0 ELSE Head(outs).value + SumValue(Tail(outs))
RECURSIVE SumPairs(_)
SumPairs(pairs) ==
    IF pairs = << >> THEN 0 ELSE Head(pairs).amt + SumPairs(Tail(pairs))
RECURSIVE SumSet(_)
SumSet(S) ==
    IF S = {} THEN 0
    ELSE LET c == CHOOSE d \in S : TRUE IN c.amt + SumSet(S \ {c})

\* The positions of the change output in the returned outputs.
ChangeOutputs(outs) == { i \in 1 .. Len(outs) : outs[i].addr = "change" }

\* C11: for every transaction createTx returns, the sum of the inputs equals
\* the sum of all outputs (pay outputs and change) plus the final fee
\* estimate, and neither the fee nor the change is negative.
C11_InputsEqualOutputsPlusFee ==
    Returned =>
        LET tx == tres.tx
        IN  /\ SumAmt(tx.inputs) = SumValue(tx.outs) + tx.fee
            /\ tx.fee >= 0
            /\ SumAmt(tx.inputs) - SumPairs(txr.pairs) - tx.fee >= 0
            /\ \A i \in ChangeOutputs(tx.outs) : tx.outs[i].value >= 0

\* A transaction is returned whose change output of the first iteration was
\* removed because the fee estimate had to be raised.
C11_Witness ==
    /\ Returned
    /\ tres.tx.iters >= 2
    /\ tres.tx.asked

\* The serialized size of the returned transaction, and the sum over its
\* inputs of amount times depth.
ActualSize ==
    10 + 41 * Len(tres.tx.inputs)
       + tres.env.sigLen * Cardinality(tres.tx.signed)
       + 34 * Len(tres.tx.outs)
RECURSIVE AmountDepth(_)
AmountDepth(credits) ==
    IF credits = << >> THEN 0
    ELSE LET c == Head(credits)
             depth == IF c.height = -1 THEN 0
                      ELSE tres.env.height - c.height + 1
         IN  c.amt * depth + AmountDepth(Tail(credits))
\* The transaction may go without fee: free transactions are allowed and
\* its priority is above the threshold.
FreeEligible ==
    /\ ~tres.env.disallowFree
    /\ AmountDepth(tres.tx.inputs) > 57600 * ActualSize

\* C12: the fee of a returned transaction is at least feeIncrement times
\* (1 + size / 1000), size its serialized size, unless the transaction is
\* free-eligible and smaller than 1000 bytes.
C12_FeeCoversSize ==
    Returned =>
        \/ tres.tx.fee >= (1 + ActualSize \div 1000) * tres.env.incr
        \/ FreeEligible /\ ActualSize < 1000

\* A free-eligible transaction of less than 1000 bytes is returned, at the
\* fee of one increment.
C12_Witness ==
    /\ Returned
    /\ FreeEligible /\ ActualSize < 1000
    /\ tres.tx.fee = tres.env.incr

\* The outputs without the one at position i (counted from 1).
Without(outs, i) == SubSeq(outs, 1, i - 1) \o SubSeq(outs, i + 1, Len(outs))
\* The number of times output o occurs in outs.
Occurrences(outs, o) == Cardinality({ i \in 1 .. Len(outs) : outs[i] = o })
\* The outputs the pay-list asks for.
PayOutputs ==
    [i \in 1 .. Len(txr.pairs) |->
        [addr |-> txr.pairs[i].addr, value |-> txr.pairs[i].amt]]
\* Two output lists hold the same outputs, each as often.
SameOutputs(a, b) ==
    /\ Len(a) = Len(b)
    /\ \A i \in 1 .. Len(a) : Occurrences(a, a[i]) = Occurrences(b, a[i])

\* C13: when the returned transaction has a change output, ChangeIndex lies
\* in [0, number of outputs), the output at ChangeIndex pays the change
\* address the value (sum of inputs) - (sum of pay amounts) - fee, and the
\* other outputs are exactly the outputs of the pay-list.
C13_ChangeOutputAtChangeIndex ==
    Returned /\ ChangeOutputs(tres.tx.outs) # {} =>
        LET tx == tres.tx
        IN  /\ tx.changeIdx \in 0 .. Len(tx.outs) - 1
            /\ tx.outs[tx.changeIdx + 1] =
                  [addr |-> "change",
                   value |-> SumAmt(tx.inputs) - SumPairs(txr.pairs) - tx.fee]
            /\ SameOutputs(Without(tx.outs, tx.changeIdx + 1), PayOutputs)

\* A transaction with two pay outputs is returned whose change output is
\* not the last output.
C13_Witness ==
    /\ Returned
    /\ Len(txr.pairs) = 2
    /\ ChangeOutputs(tres.tx.outs) # {}
    /\ tres.tx.changeIdx < Len(tres.tx.outs) - 1

\* C14: ChangeIndex is >= 0 exactly when the returned transaction contains a
\* change output, and -1 when it contains none, also when a change output
\* was added in one iteration and removed before the next.
C14_ChangeIndexIffChangeOutput ==
    Returned =>
        /\ tres.tx.changeIdx >= 0 <=> ChangeOutputs(tres.tx.outs) # {}
        /\ ChangeOutputs(tres.tx.outs) = {} => tres.tx.changeIdx = -1

ThroughTxToPairs == Called /\ tsteps = << "eligible" >>

\* C16: every input of a transaction built through txToPairs is one of the
\* credits found eligible for that build, its outpoint was not locked when
\* the eligible credits were computed, no credit is selected twice, and
\* input i is selected credit i.
C16_InputsAreEligibleUnlockedDistinct ==
    ThroughTxToPairs /\ tres.tx.err = "none" =>
        LET inputs == tres.tx.inputs
        IN  /\ \A i \in 1 .. Len(inputs) :
                  /\ inputs[i] \in teligible
                  /\ inputs[i] \in unspent
                  /\ inputs[i].op \notin lockedOutpoints
            /\ \A i, j \in 1 .. Len(inputs) :
                  inputs[i].op = inputs[j].op => i = j

\* A transaction is built through txToPairs while a spendable credit of
\* the store is locked, from two credits.
C16_Witness ==
    /\ ThroughTxToPairs
    /\ tres.tx.err = "none"
    /\ \E c \in unspent :
          c.op \in lockedOutpoints /\ c.class = "P2PKH" /\ c.height = 1
    /\ Len(tres.tx.inputs) = 2

\* Every amount of the pay-list is positive, every address decodes.
AmountsPositive == \A i \in 1 .. Len(txr.pairs) : txr.pairs[i].amt > 0
AddressesDecode ==
    \A i \in 1 .. Len(txr.pairs) : txr.pairs[i].addr # "not an address"
ValidPayList == AmountsPositive /\ AddressesDecode
\* The call ran out of eligible credits: all of them were popped and they
\* do not cover the pay-list total plus the fee estimate.
Exhausted ==
    /\ SumAmt(tres.tx.inputs) = SumSet(teligible)
    /\ SumSet(teligible) < SumPairs(txr.pairs) + tres.tx.fee

\* C17: a createTx that gets past the pay-list fails with
\* InsufficientFundsError exactly when it runs out of eligible credits
\* before the inputs cover the pay-list total plus the fee estimate; the
\* error carries in = the sum of all eligible credits, out = the pay-list
\* total and fee = the fee estimate at that point, 0 when not even the
\* pay-list total is covered, with in < out + fee; and it fails so whenever
\* the eligible credits sum to less than the pay-list total.
C17_InsufficientFundsExactlyWhenExhausted ==
    Called /\ ValidPayList =>
        LET tx == tres.tx
        IN  /\ tx.err = "InsufficientFunds" <=> Exhausted
            /\ tx.err = "InsufficientFunds" =>
                  /\ tx.totalAdded = SumSet(teligible)
                  /\ tx.minAmount = SumPairs(txr.pairs)
                  /\ tx.totalAdded < tx.minAmount + tx.fee
                  /\ tx.totalAdded < tx.minAmount => tx.fee = 0
            /\ SumSet(teligible) < SumPairs(txr.pairs) =>
                  tx.err = "InsufficientFunds"

\* The credits cover the pay-list total but not the fee on top of it, and
\* the call fails with a fee in the error.
C17_Witness ==
    /\ Called
    /\ ValidPayList
    /\ tres.tx.err = "InsufficientFunds"
    /\ tres.tx.fee > 0
    /\ Len(tres.tx.inputs) >= 2

\* The manager can sign for every credit the call is given: it is unlocked
\* and the credits are P2PKH credits, as txToPairs provides them.
Signable ==
    /\ ~tres.env.mgrLocked
    /\ \A c \in teligible : c.class = "P2PKH"

ReachedSigning ==
    /\ Called
    /\ tres.tx.signPasses >= 1
    /\ tres.tx.err \notin {"InsufficientFunds", "changeAddress"}

\* C20: if, when the transaction is signed, a selected credit has a script
\* that is not P2PKH or does not yield exactly one address, the build fails
\* with ErrUnsupportedTransactionType: no input is left unsigned silently
\* and no other kind of error results.
C20_UnsupportedScriptFailsBuild ==
    /\ ReachedSigning
    /\ ~tres.env.mgrLocked
    /\ \E i \in 1 .. Len(tres.tx.inputs) :
          tres.tx.inputs[i].class # "P2PKH"
    => tres.tx.err = "ErrUnsupportedTransactionType"

\* ------------------------------------------ the claims on Listen*
\* Topic t has been subscribed.
Subscribed(t) ==
    \/ t = "lockStateChanges" /\ lockStateChanges
    \/ t # "lockStateChanges" /\ t \in channels

\* C21: on each of the six topics the first Listen call succeeds and every
\* later one returns ErrDuplicateListen, and a Listen call on one topic
\* leaves every other topic as it was.
C21_SecondListenIsDuplicate ==
    [][\A t \in Topics :
          ret'.topic = t =>
              /\ ret'.val = IF Subscribed(t) THEN "ErrDuplicateListen"
                            ELSE "nil"
              /\ Subscribed(t)'
              /\ \A u \in Topics \ {t} : Subscribed(u)' = Subscribed(u)]_vars

\* A second ListenRelevantTxs has just failed while the lock-state topic is
\* subscribed and the connected-block topic is not.
C21_Witness ==
    /\ ret = [client |-> 0, val |-> "ErrDuplicateListen",
              topic |-> "relevantTxs"]
    /\ lockStateChanges
    /\ "connectedBlocks" \notin channels

\* ------------------------------------------ the claims on SendPairs
\* Caller c's SendPairs makes its SendRawTransaction call in this step.
Broadcasts(c) ==
    /\ cpc[c] = "broadcast"
    /\ ret'.client = c
    /\ ret'.val \in {"Sent", "SendErr"}
\* The store has the record of the transaction c built: its inputs are no
\* longer unspent, and its change output, if ChangeIndex names one, is a
\* credit of the wallet.
Recorded(c) ==
    /\ \A u \in unspent : u.op \notin ctx[c].inputs
    /\ ctx[c].changeIdx >= 0 =>
          \E u \in unspent :
              /\ u.op = NumCredits + TxCode(ctx[c].inputs)
              /\ u.amt = ctx[c].outs[ctx[c].changeIdx + 1].value

\* C22: SendPairs broadcasts only after the transaction record has been
\* inserted and, when ChangeIndex >= 0, the change credit has been added; a
\* failing InsertTx or AddCredit ends the call with the error and without
\* broadcast; a failing broadcast leaves the transaction recorded.
C22_RecordBeforeBroadcast ==
    [][\A c \in Clients :
          /\ Broadcasts(c) => Recorded(c) /\ UNCHANGED unspent
          /\ ret'.client = c /\ ret'.val = "StoreErr" =>
                /\ cpc[c] \in {"insertTx", "addCredit"}
                /\ cpc'[c] = "idle"]_vars

\* A broadcast has just failed for a transaction with a change output, whose
\* change credit is in the store.
C22_Witness ==
    /\ ret.val = "SendErr"
    /\ \E u \in unspent : u.op > NumCredits

\* ------------------------------------ the claims on findEligibleOutputs
\* txToPairs has computed the eligible credits of the store.
EligibleComputed == tsteps = << "eligible" >> /\ tpc \in {"build", "done"}
\* The confirmations of a credit at the reported tip.
Confirmations(c) ==
    IF c.height = -1 \/ c.height > TipHeight THEN 0
    ELSE TipHeight - c.height + 1

\* C23: findEligibleOutputs(account, minconf, tip) returns exactly the
\* unspent credits with at least minconf confirmations, at least coinbase
\* maturity confirmations if from a coinbase, an outpoint that is not
\* locked, and a P2PKH script whose address is of the account.
C23_EligibleExactlyFiltered ==
    EligibleComputed =>
        teligible =
            { c \in unspent :
                /\ Confirmations(c) >= txr.minconf
                /\ c.coinbase => Confirmations(c) >= 100
                /\ c.op \notin lockedOutpoints
                /\ c.class = "P2PKH"
                /\ c.acct = 0 }

\* With minconf 0 the eligible credits of a store holding an immature
\* coinbase credit, an unmined credit and a mined one are the last two.
C23_Witness ==
    /\ EligibleComputed
    /\ txr.minconf = 0
    /\ \E c \in unspent : c.coinbase
    /\ \E c \in teligible : c.height = -1
    /\ \E c \in teligible : c.height = 1
    /\ \A c \in teligible : ~c.coinbase

\* ------------------------------------------ the claims on TestCreateTx
\* createTx has returned from the call TestCreateTx makes: the five test
\* credits, the pay-list of 15e6 and 10e6 satoshi, an increment of 1000
\* satoshi, free transactions allowed, a manager that signs and a change
\* address.
TestCall ==
    /\ Called
    /\ teligible = TestCredits
    /\ txr.pairs \in TestPayLists
    /\ tres.env.incr = 1
    /\ ~tres.env.disallowFree
    /\ ~tres.env.mgrLocked
    /\ tres.env.changeAddrOk
\* The amounts of the inputs, in the order of the inputs.
InputAmounts == [i \in 1 .. Len(tres.tx.inputs) |-> tres.tx.inputs[i].amt]

\* C24: the call of TestCreateTx succeeds with exactly 3 inputs and exactly
\* 3 outputs, the two pay outputs and a change output of 8.999e6 satoshi to
\* the change address, at a fee of 1000 satoshi, which is not below
\* feeForSize of the transaction.
C24_TestCreateTxResult ==
    TestCall =>
        LET tx == tres.tx
        IN  /\ tx.err = "none"
            /\ Len(tx.inputs) = 3
            /\ Len(tx.outs) = 3
            /\ ChangeOutputs(tx.outs) = {tx.changeIdx + 1}
            /\ tx.outs[tx.changeIdx + 1] =
                  [addr |-> "change", value |-> 8999]
            /\ SameOutputs(Without(tx.outs, tx.changeIdx + 1), PayOutputs)
            /\ SumAmt(tx.inputs) - SumValue(tx.outs) = 1
            /\ (1 + ActualSize \div 1000) * 1 <= 1

\* The call of TestCreateTx has returned, with the change output first.
C24_Witness ==
    /\ TestCall
    /\ tres.tx.err = "none"
    /\ tres.tx.changeIdx = 0

\* C25 as stated: in the scenario of TestCreateTx the selected inputs are,
\* largest first, the credits of 1.5e7, 1e7 and 3e6 satoshi, and the build
\* has 3 outputs with a change of 8.999e6 and a fee of 1000.
C25_InputsWithThreeMillion ==
    TestCall =>
        /\ InputAmounts = << 15000, 10000, 3000 >>
        /\ Len(tres.tx.outs) = 3
        /\ \E i \in ChangeOutputs(tres.tx.outs) :
              tres.tx.outs[i].value = 8999
        /\ tres.tx.fee = 1

\* C25: in the scenario of TestCreateTx the selected inputs are, largest
\* first, the credits of 1.5e7, 1e7 and 9e6 satoshi, and the build has 3
\* outputs with a change of 8.999e6 and a fee of 1000.
C25_InputsLargestFirst ==
    TestCall =>
        /\ InputAmounts = << 15000, 10000, 9000 >>
        /\ Len(tres.tx.outs) = 3
        /\ \E i \in ChangeOutputs(tres.tx.outs) :
              tres.tx.outs[i].value = 8999
        /\ tres.tx.fee = 1

\* The call of TestCreateTx has returned with three inputs.
C25_Witness ==
    /\ TestCall
    /\ Len(tres.tx.inputs) = 3

\* ------------------------------------------------- the claims on Stop
\* txCreator has received a build request and is blocked in HoldUnlock's
\* send on holdUnlockRequests, which only walletLocker's select receives.
TxcWaitsForHold == tpc = "hold"

\* C26: after Stop both workers terminate in every interleaving, and a
\* build request txCreator has received before it obtained its custody hold
\* completes and is replied to.  For that, txCreator must never wait for
\* its hold once walletLocker has exited: nothing would serve it any more.
C26_InFlightBuildNotStranded ==
    ~(quit /\ lpc = "exited" /\ TxcWaitsForHold)

\* ------------------------------------------- the claims on addOutputs
\* C27: on a pay-list whose amounts are all positive and whose addresses
\* all decode, addOutputs adds exactly one output per pair, with the pair's
\* amount as value and paying the pair's address, and returns the sum of
\* the amounts.
C27_OneOutputPerPair ==
    Called /\ ValidPayList =>
        /\ tres.added.err = "none"
        /\ Len(tres.added.outs) = Len(txr.pairs)
        /\ \A i \in 1 .. Len(txr.pairs) :
              /\ tres.added.outs[i].value = txr.pairs[i].amt
              /\ tres.added.outs[i].addr = txr.pairs[i].addr
        /\ tres.added.minAmount = SumPairs(txr.pairs)

\* addOutputs has returned for a pay-list of two pairs of different
\* positive amounts.
C27_Witness ==
    /\ Called
    /\ ValidPayList
    /\ Len(txr.pairs) = 2
    /\ txr.pairs[1].amt # txr.pairs[2].amt
    /\ Len(tres.added.outs) = 2

\* ------------------------------------ the claims on the convergence loop
\* The loop of createTx was entered; the k-th iteration popped a credit;
\* the last iteration that popped one (0 when none did).
LoopEntered == Called /\ tres.tx.iters >= 1
InputsAfter(k) ==
    IF k < tres.tx.iters THEN tres.tx.trace[k + 1].nin
    ELSE Len(tres.tx.inputs)
Popped(k) == InputsAfter(k) > tres.tx.trace[k].nin
LastPop ==
    IF \E k \in 1 .. tres.tx.iters : Popped(k)
    THEN CHOOSE k \in 1 .. tres.tx.iters :
            Popped(k) /\ \A j \in k + 1 .. tres.tx.iters : ~Popped(j)
    ELSE 0
Ceil(a, b) == (a + b - 1) \div b

\* C28 as stated: the loop of createTx ends after at most
\* ceil(total_in / fee_increment) iterations, total_in taken as large as it
\* can be meant, the total of all eligible credits.
C28_AtMostTotalOverIncrement ==
    LoopEntered =>
        tres.tx.iters <= Ceil(SumSet(teligible), tres.env.incr)

\* C28: the loop of createTx ends, with a transaction or an error, after at
\* most ceil(total_in / fee_increment) iterations following the last
\* iteration that popped a credit (following the loop's start when none
\* popped one).
C28_AtMostTotalOverIncrementAfterLastPop ==
    LoopEntered =>
        tres.tx.iters - LastPop
            <= Ceil(tres.tx.totalAdded, tres.env.incr)

\* The loop ran on after an iteration that popped a credit.
C28_Witness ==
    /\ LoopEntered
    /\ LastPop >= 1
    /\ tres.tx.iters > LastPop

\* The fee estimate the k-th iteration started with and the one the next
\* iteration started with.
FeeAtStart(k) == tres.tx.trace[k].fee
NotLast == 1 .. tres.tx.iters - 1

\* The second half of C29 alone: the fee estimate never decreases from one
\* iteration to the next.
FeeEstimateNeverDecreases ==
    LoopEntered =>
        \A k \in NotLast : FeeAtStart(k + 1) >= FeeAtStart(k)

\* C29 as stated: every iteration that does not end the build leaves the
\* fee estimate exactly one fee increment higher than it was at the start
\* of the iteration, and the estimate never decreases from one iteration
\* to the next, also when the iteration popped credits.
C29_EveryIterationAddsOneIncrement ==
    /\ LoopEntered =>
          \A k \in NotLast :
              FeeAtStart(k + 1) = FeeAtStart(k) + tres.env.incr
    /\ FeeEstimateNeverDecreases

\* C29: an iteration that does not end the build and pops no credit leaves
\* the fee estimate exactly one fee increment higher than it was at the
\* start of the iteration; one that pops credits leaves the minimum fee
\* estimated anew for the inputs it has after the last pop.
C29_IncrementUnlessPopped ==
    LoopEntered =>
        \A k \in NotLast :
            IF ~Popped(k)
            THEN FeeAtStart(k + 1) = FeeAtStart(k) + tres.env.incr
            ELSE FeeAtStart(k + 1) =
                    minimumFee(tres.env.incr,
                               estimateTxSize(InputsAfter(k),
                                              Len(tres.added.outs)),
                               tres.added.outs,
                               SubSeq(tres.tx.inputs, 1, InputsAfter(k)),
                               tres.env.height, tres.env.disallowFree)

\* A build went through an iteration that popped a credit and through one
\* that popped none, and neither ended it.
C29_Witness ==
    /\ LoopEntered
    /\ \E k \in NotLast : Popped(k)
    /\ \E k \in NotLast : ~Popped(k)

\* ------------------------------------------- the claims on the selection
\* The credits createTx made inputs of.
Selected == { tres.tx.inputs[i] : i \in 1 .. Len(tres.tx.inputs) }

\* C30: the inputs of createTx are a prefix of the eligible credits in
\* descending order of amount: they are distinct eligible credits, no input
\* is larger than the one before it, and every eligible credit strictly
\* larger than an input is an input too; and the last credit was popped
\* while the input total was below what was required at that moment, which
\* is at least the total of the pay-list.
C30_InputsArePrefixOfDescending ==
    Called =>
        LET inputs == tres.tx.inputs
            n == Len(inputs)
        IN  /\ Selected \subseteq teligible
            /\ Cardinality(Selected) = n
            /\ \A i \in 1 .. n - 1 : inputs[i].amt >= inputs[i + 1].amt
            /\ \A c \in Selected, d \in teligible :
                  d.amt > c.amt => d \in Selected
            /\ n > 0 =>
                  /\ tres.tx.totalAdded - inputs[n].amt < tres.tx.lastNeed
                  /\ tres.tx.lastNeed >= tres.tx.minAmount

\* A transaction is returned with two or more inputs, the last of them
\* popped for the fee, and an eligible credit was left out.
C30_Witness ==
    /\ Returned
    /\ Len(tres.tx.inputs) >= 2
    /\ tres.tx.lastNeed > tres.tx.minAmount
    /\ Selected # teligible

\* --------------------------------------- the claims on the notifications
\* C31: a goroutine that notifies on one topic is never held up by a
\* delivery on another topic that its subscriber has not yet received: none
\* waits for notificationMu while the notify* of another topic is blocked
\* in its send.
C31_TopicsDeliverIndependently ==
    \A t \in Producers, u \in Producers :
        t # u /\ npc[u] = "send" => npc[t] # "lock"

\* C32: a notify* call on a topic without subscriber returns without
\* blocking and delivers nothing, and one on a subscribed topic is in its
\* send until the subscriber receives: a call that waits has a subscriber
\* to wait for, and only a call on a subscribed topic is in a send.
C32_NotifyBlocksOnlyForItsSubscriber ==
    \A t \in Producers :
        /\ npc[t] = "lock" /\ ~ChannelMade(t) => notificationMu = "free"
        /\ npc[t] = "send" => ChannelMade(t) /\ notificationMu = t

\* The rest of C32 on walletLocker: Unlock is answered with success, and
\* walletLocker leaves a notifyLockStateChange, only in the step in which the
\* subscriber receives the value, once.
ReplyAfterDelivery ==
    [][/\ ret'.val = "UnlockOk" /\ lockStateChanges
          => observed' = Observe(FALSE)
       /\ lpc = "notifyUnlock" /\ lpc' # lpc => observed' = Observe(FALSE)
       /\ lpc = "notifyLock" /\ lpc' # lpc => observed' = Observe(TRUE)
       /\ observed' # observed => lpc \in {"notifyUnlock", "notifyLock"}
      ]_vars

\* C33: the lock-state subscriber receives exactly the transitions of the
\* lock state that walletLocker performs, in their order: once subscribed,
\* every step that changes the lock state of the manager puts walletLocker
\* in the notification of the new state, and every value received is the
\* state the manager is in.
C33_SubscriberSeesEveryTransition ==
    [][/\ lockStateChanges /\ locked' # locked
          => lpc' = IF locked' THEN "notifyLock" ELSE "notifyUnlock"
       /\ observed' # observed
          => /\ observed' = Observe(locked)
             /\ lpc = IF locked THEN "notifyLock" ELSE "notifyUnlock"
      ]_vars

\* ------------------------------------ the claims on ChangePassphrase
\* A ChangePassphrase call returns in this step.
ChangePassphraseReturns == ret'.val \in {"ChangeOk", "ChangeErr"}

\* C34: serving a ChangePassphrase request leaves the custody state as it
\* was, on success and on failure: the manager is locked or unlocked as
\* before, the timer is untouched, nothing is notified, walletLocker is back
\* in its select, and the reply is the manager's status: the passphrase
\* changes exactly on success.
C34_ChangePassphraseKeepsCustodyState ==
    [][ChangePassphraseReturns =>
          /\ locked' = locked
          /\ timeout' = timeout
          /\ observed' = observed
          /\ lpc = "select" /\ lpc' = "select"
          /\ ret'.val = "ChangeErr" => passphrase' = passphrase
          /\ passphrase' # passphrase => ret'.val = "ChangeOk"
      ]_vars

\* A ChangePassphrase has succeeded on an unlocked manager whose timer is
\* running.
C34_Witness ==
    /\ ret.val = "ChangeOk"
    /\ ~locked
    /\ timeout = "pending"

\* ---------------------------------------- the claims on the build worker
\* The errors createTx can return in a build made by txToPairs.
BuildResults ==
    {"none", "InsufficientFunds", "changeAddress", "cannot get private key",
     "ErrNonPositiveAmount"}

\* C35: txToPairs takes the custody hold, then the block stamp, then the
\* eligible credits, then builds, then releases the hold, and only then
\* txCreator sends the reply; on every way out - no hold given, block
\* stamp error, eligibility error, the result of the build - a hold that
\* was taken has been released once when the reply is sent, and while it
\* is out walletLocker waits for its release.
C35_HoldBuildReleaseReply ==
    /\ tpc = "reply" =>
          \/ tsteps = << >> /\ tres.err = "ErrLocked"
          \/ /\ tsteps = << "hold", "stamp", "release" >>
             /\ tres.err = "BlockStamp"
          \/ /\ tsteps = << "hold", "stamp", "eligible", "release" >>
             /\ tres.err = "UnspentOutputs"
          \/ /\ tsteps = << "hold", "stamp", "eligible", "build",
                            "release" >>
             /\ tres.err \in BuildResults
    /\ tsteps # << >> /\ tsteps[Len(tsteps)] # "release" =>
          /\ tsteps[1] = "hold"
          /\ tpc \in {"stamp", "eligible", "build", "release"}
          /\ lpc = "held"

\* The reply of a build that went through is about to be sent.
C35_Witness ==
    /\ tpc = "reply"
    /\ tres.err = "none"
    /\ tsteps = << "hold", "stamp", "eligible", "build", "release" >>

\* C36: build requests are served in the order in which they are handed to
\* txCreator, one at a time, and every CreateSimpleTx caller gets one reply,
\* that of its own request: a request is received only while no other is
\* being served; the caller of the request being served, and no other, waits
\* for a reply; the reply is the result of that request and goes to that
\* caller, while every other caller stays where it is.
C36_OneRequestAtATimeOwnReply ==
    [][/\ \A c \in Clients : cpc[c] = "createWait" <=> txr.client = c
       /\ txr' # txr /\ txr' # NoTxr =>
             /\ tpc = "select" /\ txr = NoTxr
             /\ cpc[txr'.client] = "createSend"
       /\ tpc = "reply" /\ tpc' # "reply" =>
             /\ cpc[txr.client] = "createWait"
             /\ cpc'[txr.client] # "createWait"
             /\ tres.err # "none" =>
                   ret' = [client |-> txr.client, val |-> tres.err]
             /\ tres.err = "none" => ctx'[txr.client] = tres
             /\ \A d \in Clients \ {txr.client} :
                   cpc'[d] = cpc[d] /\ ctx'[d] = ctx[d]
       /\ \A c \in Clients :
             cpc[c] = "createWait" /\ cpc'[c] # "createWait" =>
                tpc = "reply" /\ txr.client = c
      ]_vars

\* The reply to one caller is about to be sent while another caller is
\* blocked in the send of its request.
C36_Witness ==
    /\ tpc = "reply"
    /\ tres.err = "none"
    /\ \E c \in Clients \ {txr.client} : cpc[c] = "createSend"

\* ------------------------------------------ the claims on the estimates
\* C37 as stated: estimateTxSize(n_in, n_out) is 10 + 148 * n_in +
\* 34 * n_out, and every credit popped by a top-up loop adds 148 to the
\* estimate.
C37_EstimateCounts148PerInput ==
    pcall.done =>
        /\ pcall.fn = "estimateTxSize" =>
              pcall.res = 10 + 148 * pcall.numInputs + 34 * pcall.numOutputs
        /\ pcall.fn = "topUp" =>
              pcall.res = 10 + 148 * (pcall.numInputs + pcall.popped)
                             + 34 * pcall.numOutputs

\* C37: estimateTxSize(n_in, n_out) is 10 + 146 * n_in + 34 * n_out, and
\* every credit popped by a top-up loop adds 146 to the estimate.
C37_EstimateCounts146PerInput ==
    pcall.done =>
        /\ pcall.fn = "estimateTxSize" =>
              pcall.res = 10 + 146 * pcall.numInputs + 34 * pcall.numOutputs
        /\ pcall.fn = "topUp" =>
              pcall.res = 10 + 146 * (pcall.numInputs + pcall.popped)
                             + 34 * pcall.numOutputs

\* A top-up loop has popped two credits on top of two inputs.
C37_Witness ==
    /\ pcall.done
    /\ pcall.fn = "topUp"
    /\ pcall.numInputs = 2
    /\ pcall.popped = 2

\* Sum of amount * depth over the credits of the call, depth 0 for a credit
\* that is not in a block.
RECURSIVE C38_Weighted(_, _)
C38_Weighted(cr, h) ==
    IF cr = << >> THEN 0
    ELSE (IF Head(cr).height = -1 THEN 0
          ELSE Head(cr).amt * (h - Head(cr).height + 1))
         + C38_Weighted(Tail(cr), h)

\* The fee of the call after the first three steps: (1 + size/1000) * incr;
\* zero if free is allowed, the weighted sum over the size is above the
\* threshold and the size is below 1000; incr if that is below incr and an
\* output is below a bitcent.
C38_Unclamped ==
    LET start == (1 + pcall.size \div 1000) * pcall.incr
        free  == /\ ~pcall.disallowFree
                 /\ C38_Weighted(pcall.credits, pcall.height)
                        > 57600 * pcall.size
                 /\ pcall.size < 1000
        fee   == IF free THEN 0 ELSE start
        small == \E k \in 1 .. Len(pcall.outputs) :
                    pcall.outputs[k].value < 1000
    IN  IF fee < pcall.incr /\ small THEN pcall.incr ELSE fee

\* C38: minimumFee returns the fee of the four steps: the fee of the first
\* three where that lies between zero and the largest amount, and a fee
\* between zero and the largest amount in every case.
C38_MinimumFeeIsFourSteps ==
    (pcall.done /\ pcall.fn = "minimumFee") =>
        /\ pcall.res >= 0
        /\ pcall.res \div 1000000 <= 2100000
        /\ (C38_Unclamped >= 0 /\ C38_Unclamped \div 1000000 < 2100000)
              => pcall.res = C38_Unclamped

\* The same for the calls with a fee increment of zero or more.
C38_FourStepsFromZeroUp ==
    (pcall.done /\ pcall.fn = "minimumFee" /\ pcall.incr >= 0) =>
        /\ pcall.res >= 0
        /\ pcall.res \div 1000000 <= 2100000
        /\ pcall.res = C38_Unclamped

\* A call of a free-eligible transaction below a kilobyte whose fee is
\* raised from zero to the increment for an output below a bitcent.
C38_Witness ==
    /\ pcall.done
    /\ pcall.fn = "minimumFee"
    /\ pcall.incr > 0
    /\ ~pcall.disallowFree
    /\ pcall.size < 1000
    /\ C38_Weighted(pcall.credits, pcall.height) > 57600 * pcall.size
    /\ pcall.res = pcall.incr

\* A free-eligible call below a kilobyte that returns a fee of zero.
C38_WitnessFree ==
    /\ pcall.done
    /\ pcall.fn = "minimumFee"
    /\ pcall.incr > 0
    /\ pcall.res = 0

\* ------------------------------------------------ the claims on the fee
\* What a returned transaction pays: its inputs less its outputs.
FeePaid == SumAmt(tres.tx.inputs) - SumValue(tres.tx.outs)

\* C39: with a fee increment above zero, every transaction createTx returns
\* pays a fee of at least the fee increment, never zero, also when free
\* transactions are allowed and the first fee estimate was zero.
C39_ReturnedTxPaysAnIncrement ==
    (Returned /\ tres.env.incr > 0) =>
        /\ FeePaid >= tres.env.incr
        /\ FeePaid > 0

\* A transaction is returned whose build started from a fee estimate of
\* zero, free transactions being allowed.
C39_Witness ==
    /\ Returned
    /\ tres.env.incr > 0
    /\ ~tres.env.disallowFree
    /\ FeeAtStart(1) = 0

\* ----------------------------------------------------- the claims on Stop
\* C40: however many Stop calls are made, one after another or at once,
\* close(quit) is executed at most once, and exactly once when a Stop call
\* has got past its select or found quit closed; the chain client is
\* stopped at most once.
C40_QuitClosedOnce ==
    /\ closes <= 1
    /\ chainStops <= 1
    /\ quit => closes = 1

\* The same of the chain client alone.
ChainClientStoppedAtMostOnce == chainStops <= 1

\* Two Stop calls have both got past the select, quit still open.
TwoStopsPastSelect ==
    \E c, d \in Clients : c # d /\ spc[c] = "close" /\ spc[d] = "close"
====
